---- MODULE Spec2Model ----
(***************************************************************************)
(* The bot-script flow editor of the portal: the graph model held by       *)
(* FlowCanvas (nodes, edges), the script -> graph conversion scriptToFlow, *)
(* the graph -> script conversion flowToScript, the editing operations of  *)
(* FlowCanvas and SidePanel, and the save path through handleSave and the  *)
(* page's onSaved.                                                         *)
(*                                                                         *)
(* Strings of the program are strings here.  A JavaScript value that is    *)
(* absent (undefined / null) and is only ever read through `x || ''` is    *)
(* the empty string.  An optional object (skip_if) carries a `present`     *)
(* flag.  A JavaScript object used as a map (done_actions,                 *)
(* _flow_positions) is a sequence of entries with distinct ids, in         *)
(* insertion order.  A button title, whose length the editors cap, is the *)
(* sequence of its characters.                                             *)
(***************************************************************************)
EXTENDS Integers, Sequences, FiniteSets, TLC

VARIABLES
    stored,          \* the scripts the store returns for GET /api/bot-scripts/:id
    view,            \* BotFlowEditorPage.view: "list" | "editor"
    nodes,           \* FlowCanvas nodes state
    edges,           \* FlowCanvas edges state
    originalScript,  \* BotFlowEditorPage.originalScript (FlowCanvas prop)
    saving,          \* FlowCanvas.saving
    saveMsg,         \* FlowCanvas.saveMsg: "", "saved" or "error"
    inflight,        \* <<>> or <<s>>: the body of the PUT awaiting its response
    now,             \* the value Date.now() returns
    scriptsView,     \* BotScriptsPage.view: "list" | "simple" | "advanced"
    simple,          \* BotScriptsPage.simple: the simple editor's form
    editingId,       \* BotScriptsPage.editingId
    editing,         \* BotScriptsPage.editing: the advanced editor's script
    closer,          \* one invocation of the invoice-closer Lambda handler
    bot,             \* one session of the script execution engine
    diag,            \* BotDiagnosticsPage and the sessions on the server
    simpleSaves      \* BotScriptsPage: the script list and the saves

\* the state outside the flow editor page
\* the state of the backend functions
backend == <<closer, bot>>

\* the state of the pages around the editors
pages == <<diag, simpleSaves>>

offCanvas == <<scriptsView, simple, editingId, editing, backend, pages>>

\* the state of the flow editor page
flowEditor == <<view, nodes, edges, originalScript, saving, saveMsg, inflight>>

\* the state of the two editor pages
editors == <<stored, flowEditor, now, scriptsView, simple, editingId, editing>>

vars == <<stored, flowEditor, now, offCanvas>>

----------------------------------------------------------------------------
(* Bounds of the model *)

MaxNow == 2
MaxNodes == 3
MaxEdges == 2
MaxSteps == 3
MaxDones == 2
MaxLog == 6
MaxEvents == 2
MaxSaves == 3

----------------------------------------------------------------------------
(* Small helpers for JavaScript idioms *)

\* a || b on strings
Or(a, b) == IF a # "" THEN a ELSE b

Max(a, b) == IF a >= b THEN a ELSE b

\* data.f || '' : a field the object lacks reads as undefined
Str(data, f) == IF f \in DOMAIN data THEN data[f] ELSE ""

\* data.buttons || []
Buttons(data) == IF "buttons" \in DOMAIN data THEN data.buttons ELSE <<>>

\* Array.prototype.indexOf, 0-based, -1 when absent
RECURSIVE IndexOfFrom(_, _, _)
IndexOfFrom(s, x, k) ==
    IF k > Len(s) THEN -1
    ELSE IF s[k] = x THEN k - 1 ELSE IndexOfFrom(s, x, k + 1)

IndexOf(s, x) == IndexOfFrom(s, x, 1)

\* obj[key] = value on an object kept as a sequence of [id, val] entries:
\* an existing key keeps its place and takes the new value
ObjPut(obj, key, value) ==
    IF \E i \in 1..Len(obj) : obj[i].id = key
    THEN [i \in 1..Len(obj) |->
            IF obj[i].id = key THEN [id |-> key, val |-> value] ELSE obj[i]]
    ELSE Append(obj, [id |-> key, val |-> value])

ObjHas(obj, key) == \E i \in 1..Len(obj) : obj[i].id = key

ObjGet(obj, key) ==
    LET i == CHOOSE i \in 1..Len(obj) : obj[i].id = key IN obj[i].val

ObjKeys(obj) == {obj[i].id : i \in 1..Len(obj)}

----------------------------------------------------------------------------
(* Names and handles *)

START_ID == "__start__"

NoHandle == ""

\* `btn-${i}`, i = 0, 1, 2 (the editor caps a buttons node at 3 buttons)
BtnHandles == <<"btn-0", "btn-1", "btn-2">>

BtnHandle(bi) == BtnHandles[bi + 1]

\* edge.sourceHandle?.startsWith('btn-')
StartsWithBtn(h) == \E i \in 1..Len(BtnHandles) : h = BtnHandles[i]

\* handle names that do not start with 'btn-'
OptionHandles == <<"option-0", "option-1", "option-2">>

NoSkip == [present |-> FALSE, field |-> "", goto |-> ""]

Skip(f, g) == [present |-> TRUE, field |-> f, goto |-> g]

\* the fallback name `תסריט ${new Date().toLocaleDateString('he-IL')}` for
\* the clock values T1, T2, ...: T1 falls on one day, T2 and T3 on the next
DefaultName(t) == <<"script D1", "script D2", "script D2", "script D3">>[t]

\* `flow_${Date.now()}`, `STEP_${Date.now()}`, `ACTION_${Date.now()}`,
\* `DONE_${Date.now()}`, `btn_${Date.now()}` for the clock values T1, T2, ...
FlowIdAt(t) == <<"flow_T1", "flow_T2", "flow_T3", "flow_T4">>[t]
StepIdAt(t) == <<"STEP_T1", "STEP_T2", "STEP_T3", "STEP_T4">>[t]
ActionIdAt(t) == <<"ACTION_T1", "ACTION_T2", "ACTION_T3", "ACTION_T4">>[t]
DoneIdAt(t) == <<"DONE_T1", "DONE_T2", "DONE_T3", "DONE_T4">>[t]
BtnIdAt(t) == <<"btn_T1", "btn_T2", "btn_T3", "btn_T4">>[t]

Pos(px, py) == [x |-> px, y |-> py]

----------------------------------------------------------------------------
(* scriptToFlow: script JSON -> nodes + edges *)

\* an edge with a label and a stroke style; the label is a sequence: the
\* characters of a button title, or one fixed text, or <<>> for none
LabeledEdge(src, h, tgt, lbl, dash) ==
    [source |-> src, sourceHandle |-> h, target |-> tgt,
     label |-> lbl, dashed |-> dash]

\* a plain edge
Edge(src, h, tgt) == LabeledEdge(src, h, tgt, <<>>, FALSE)

SuccessLabel == <<"success label">>

FailureLabel == <<"failure label">>

\* `דלג אם ${step.skip_if.field}`
SkipLabel(field) == <<"skip if", field>>

\* savedPos[id] || fallback
SavedPosOr(script, id, fallback) ==
    IF ObjHas(script._flow_positions, id)
    THEN ObjGet(script._flow_positions, id) ELSE fallback

\* the running y when step k (1-based) is reached
RECURSIVE StepY(_, _)
StepY(steps, k) ==
    IF k = 1 THEN 50 + 160
    ELSE StepY(steps, k - 1) + 160
         + (IF steps[k - 1].type = "buttons"
            THEN 30 * Max(Len(steps[k - 1].buttons) - 1, 0) ELSE 0)

StepNodeType(step) ==
    IF step.type = "buttons" THEN "buttonsNode"
    ELSE IF step.type = "action" THEN "actionNode" ELSE "stepNode"

\* one edge per button with a populated next_step
RECURSIVE ButtonEdges(_, _)
ButtonEdges(step, bi) ==
    IF bi >= Len(step.buttons) THEN <<>>
    ELSE (IF step.buttons[bi + 1].next_step # ""
          THEN <<LabeledEdge(step.id, BtnHandle(bi),
                             step.buttons[bi + 1].next_step,
                             step.buttons[bi + 1].title, FALSE)>>
          ELSE <<>>)
         \o ButtonEdges(step, bi + 1)

\* StepEdges without the skip_if edge
StepEdges_NoSkip(step) ==
    (IF step.type = "buttons" THEN ButtonEdges(step, 0)
     ELSE IF step.type = "action" THEN
         (IF step.on_success # ""
          THEN <<LabeledEdge(step.id, "success", step.on_success,
                             SuccessLabel, FALSE)>>
          ELSE <<>>)
         \o (IF step.on_failure # ""
             THEN <<LabeledEdge(step.id, "failure", step.on_failure,
                                FailureLabel, FALSE)>>
             ELSE <<>>)
     ELSE
         (IF step.next_step # ""
          THEN <<Edge(step.id, NoHandle, step.next_step)>> ELSE <<>>))

StepEdges(step) ==
    (IF step.type = "buttons" THEN ButtonEdges(step, 0)
     ELSE IF step.type = "action" THEN
         (IF step.on_success # ""
          THEN <<LabeledEdge(step.id, "success", step.on_success,
                             SuccessLabel, FALSE)>>
          ELSE <<>>)
         \o (IF step.on_failure # ""
             THEN <<LabeledEdge(step.id, "failure", step.on_failure,
                                FailureLabel, FALSE)>>
             ELSE <<>>)
     ELSE
         (IF step.next_step # ""
          THEN <<Edge(step.id, NoHandle, step.next_step)>> ELSE <<>>))
    \o (IF step.skip_if.present /\ step.skip_if.goto # ""
        THEN <<LabeledEdge(step.id, NoHandle, step.skip_if.goto,
                           SkipLabel(step.skip_if.field), TRUE)>>
        ELSE <<>>)

RECURSIVE AllStepEdges(_, _)
AllStepEdges(steps, k) ==
    IF k > Len(steps) THEN <<>>
    ELSE StepEdges(steps[k]) \o AllStepEdges(steps, k + 1)

scriptToFlow(script) ==
    LET steps == script.steps
        dones == script.done_actions
        yEnd  == StepY(steps, Len(steps) + 1)
        doneStartX == 400 - ((Len(dones) - 1) * 300) \div 2 - 260 \div 2
        startN == [id |-> START_ID, type |-> "startNode",
                   position |-> SavedPosOr(script, START_ID, Pos(270, 50)),
                   data |-> [name |-> script.name,
                             bot_instructions |-> script.bot_instructions,
                             greeting_known |-> script.greeting_known,
                             greeting_unknown |-> script.greeting_unknown]]
        stepN(k) == [id |-> steps[k].id, type |-> StepNodeType(steps[k]),
                     position |-> SavedPosOr(script, steps[k].id,
                                             Pos(270, StepY(steps, k))),
                     data |-> steps[k]]
        doneN(i) == [id |-> dones[i].id, type |-> "doneNode",
                     position |-> SavedPosOr(script, dones[i].id,
                                    Pos(doneStartX + (i - 1) * 300, yEnd)),
                     data |-> [id |-> dones[i].id,
                               text |-> dones[i].val.text,
                               action |-> dones[i].val.action,
                               target_script_id |->
                                   dones[i].val.target_script_id]]
    IN [nodes |-> <<startN>>
                  \o [k \in 1..Len(steps) |-> stepN(k)]
                  \o [i \in 1..Len(dones) |-> doneN(i)],
        edges |-> (IF script.first_step # ""
                   THEN <<Edge(START_ID, NoHandle, script.first_step)>>
                   ELSE <<>>)
                  \o AllStepEdges(steps, 1)]

----------------------------------------------------------------------------
(* emptyFlow: the initial flow of a new script *)

emptyFlow ==
    [nodes |-> << [id |-> START_ID, type |-> "startNode",
                   position |-> Pos(170, 50),
                   data |-> [name |-> "", bot_instructions |-> "",
                             greeting_known |-> "", greeting_unknown |-> ""]],
                  [id |-> "DONE_1", type |-> "doneNode",
                   position |-> Pos(170, 400),
                   data |-> [id |-> "DONE_1", text |-> "",
                             action |-> "save_service_call",
                             target_script_id |-> ""]] >>,
     edges |-> <<>>]

----------------------------------------------------------------------------
(* flowToScript: nodes + edges -> script JSON *)

IsStepNode(n) == n.type \in {"stepNode", "buttonsNode", "actionNode"}

IsDoneNode(n) == n.type = "doneNode"

IsStartNode(n) == n.type = "startNode"

\* FindStartNode taking the last start node instead of the first
FindStartNode_Last(nds) ==
    LET starts == SelectSeq(nds, IsStartNode)
    IN IF starts = <<>> THEN <<>> ELSE <<starts[Len(starts)]>>

\* nodes.find(n => n.type === 'startNode'): <<>> when there is none
FindStartNode(nds) ==
    LET starts == SelectSeq(nds, IsStartNode)
    IN IF starts = <<>> THEN <<>> ELSE <<Head(starts)>>

\* the value an edge map holds under a key after edges.forEach: the target
\* of the last edge that wrote the key, "" (undefined) when none did
LastTarget(writers) ==
    IF writers = <<>> THEN "" ELSE writers[Len(writers)].target

\* buttonNext[id][h]
ButtonNext(eds, id, h) ==
    LET Writes(e) == /\ e.source # START_ID
                     /\ StartsWithBtn(e.sourceHandle)
                     /\ e.source = id /\ e.sourceHandle = h
    IN LastTarget(SelectSeq(eds, Writes))

\* actionNext[id][h], h = 'success' | 'failure'
ActionNext(eds, id, h) ==
    LET Writes(e) == /\ e.source # START_ID
                     /\ ~StartsWithBtn(e.sourceHandle)
                     /\ e.sourceHandle \in {"success", "failure"}
                     /\ e.source = id /\ e.sourceHandle = h
    IN LastTarget(SelectSeq(eds, Writes))

\* simpleNext[id]
SimpleNext(eds, id) ==
    LET Writes(e) == /\ e.source # START_ID
                     /\ ~StartsWithBtn(e.sourceHandle)
                     /\ e.sourceHandle \notin {"success", "failure"}
                     /\ e.source = id
    IN LastTarget(SelectSeq(eds, Writes))

\* FirstStep without the fallback to the first step node
FirstStep_NoFallback(nds, eds) ==
    LET IsStartEdge(e) == e.source = START_ID
        startEdges == SelectSeq(eds, IsStartEdge)
    IN IF startEdges = <<>> THEN "" ELSE Head(startEdges).target

\* startEdge?.target || stepNodes[0]?.id || ''
FirstStep(nds, eds) ==
    LET IsStartEdge(e) == e.source = START_ID
        startEdges == SelectSeq(eds, IsStartEdge)
        stepNodes == SelectSeq(nds, IsStepNode)
    IN Or(IF startEdges = <<>> THEN "" ELSE Head(startEdges).target,
          IF stepNodes = <<>> THEN "" ELSE Head(stepNodes).id)

\* CompareSteps ordering by vertical position alone
CompareSteps_ByY(a, b, originalOrder) == a.position.y - b.position.y

\* the comparator of sortedSteps
CompareSteps(a, b, originalOrder) ==
    LET ai == IndexOf(originalOrder, a.id)
        bi == IndexOf(originalOrder, b.id)
    IN IF ai # -1 /\ bi # -1 THEN ai - bi
       ELSE IF ai # -1 THEN -1
       ELSE IF bi # -1 THEN 1
       ELSE a.position.y - b.position.y

\* Array.prototype.sort is stable: x, which came later, goes behind every
\* element that does not compare greater than it
RECURSIVE InsertStep(_, _, _)
InsertStep(sorted, x, originalOrder) ==
    IF sorted = <<>> THEN <<x>>
    ELSE IF CompareSteps(Head(sorted), x, originalOrder) <= 0
         THEN <<Head(sorted)>> \o InsertStep(Tail(sorted), x, originalOrder)
         ELSE <<x>> \o sorted

RECURSIVE SortSteps(_, _, _)
SortSteps(stepNodes, originalOrder, k) ==
    IF k = 0 THEN <<>>
    ELSE InsertStep(SortSteps(stepNodes, originalOrder, k - 1),
                    stepNodes[k], originalOrder)

\* CompileButton with the data value taking precedence over the edge
CompileButton_DataFirst(node, eds, i) ==
    [Buttons(node.data)[i] EXCEPT !.next_step =
        Or(Buttons(node.data)[i].next_step,
           ButtonNext(eds, node.id, BtnHandle(i - 1)))]

\* CompileButton taking the edge target alone
CompileButton_EdgeOnly(node, eds, i) ==
    [Buttons(node.data)[i] EXCEPT !.next_step =
        ButtonNext(eds, node.id, BtnHandle(i - 1))]

\* one element of a buttons step's `buttons`: { ...btn, next_step }
CompileButton(node, eds, i) ==
    [Buttons(node.data)[i] EXCEPT !.next_step =
        Or(ButtonNext(eds, node.id, BtnHandle(i - 1)),
           Buttons(node.data)[i].next_step)]

\* one element of `steps`
CompileStep(node, eds) ==
    IF node.type = "buttonsNode" THEN
        [id |-> node.id, type |-> "buttons", text |-> Str(node.data, "text"),
         buttons |-> [i \in 1..Len(Buttons(node.data)) |->
                         CompileButton(node, eds, i)],
         skip_if |-> NoSkip]
    ELSE IF node.type = "actionNode" THEN
        [id |-> node.id, type |-> "action",
         action_type |-> Or(Str(node.data, "action_type"), "check_equipment"),
         field |-> Str(node.data, "field"),
         description |-> Str(node.data, "description"),
         on_success |-> Or(ActionNext(eds, node.id, "success"),
                           Str(node.data, "on_success")),
         on_failure |-> Or(ActionNext(eds, node.id, "failure"),
                           Str(node.data, "on_failure")),
         skip_if |-> NoSkip]
    ELSE
        [id |-> node.id, type |-> "text_input", text |-> Str(node.data, "text"),
         save_to |-> Str(node.data, "save_to"),
         next_step |-> SimpleNext(eds, node.id),
         skip_if |-> IF "skip_if" \in DOMAIN node.data
                        /\ node.data.skip_if.present
                     THEN node.data.skip_if ELSE NoSkip]

\* DoneAction with a fixed action in place of the node's
DoneAction_Fixed(node) ==
    [text |-> Str(node.data, "text"),
     action |-> "save_service_call",
     target_script_id |-> Str(node.data, "target_script_id")]

\* the value of one done_actions entry
DoneAction(node) ==
    [text |-> Str(node.data, "text"),
     action |-> Or(Str(node.data, "action"), "save_service_call"),
     target_script_id |-> Str(node.data, "target_script_id")]

\* done_actions after doneNodes.forEach
RECURSIVE DoneActions(_, _)
DoneActions(doneNodes, k) ==
    IF k = 0 THEN <<>>
    ELSE ObjPut(DoneActions(doneNodes, k - 1), doneNodes[k].id,
                DoneAction(doneNodes[k]))

\* _flow_positions after nodes.forEach
RECURSIVE FlowPositions(_, _)
FlowPositions(nds, k) ==
    IF k = 0 THEN <<>>
    ELSE ObjPut(FlowPositions(nds, k - 1), nds[k].id, nds[k].position)

\* ScriptId that never reuses the id of the original script
ScriptId_Fresh(orig, t) == FlowIdAt(t)

\* const scriptId
ScriptId(orig, t) == Or(orig.script_id, FlowIdAt(t))

\* const scriptName; startNode is <<>> or <<the start node>>
ScriptName(startNode, orig, t) ==
    Or(IF startNode = <<>> THEN "" ELSE startNode[1].data.name,
       Or(orig.name, DefaultName(t)))

flowToScript(nds, eds, orig, t) ==
    LET startNode == FindStartNode(nds)
        stepNodes == SelectSeq(nds, IsStepNode)
        doneNodes == SelectSeq(nds, IsDoneNode)
        originalOrder == [i \in 1..Len(orig.steps) |-> orig.steps[i].id]
        sortedSteps == SortSteps(stepNodes, originalOrder, Len(stepNodes))
        startData(f) == IF startNode = <<>> THEN "" ELSE startNode[1].data[f]
    IN [script_id |-> ScriptId(orig, t),
        name |-> ScriptName(startNode, orig, t),
        bot_instructions |-> startData("bot_instructions"),
        greeting_known |-> startData("greeting_known"),
        greeting_unknown |-> startData("greeting_unknown"),
        first_step |-> FirstStep(nds, eds),
        steps |-> [i \in 1..Len(sortedSteps) |->
                      CompileStep(sortedSteps[i], eds)],
        done_actions |-> DoneActions(doneNodes, Len(doneNodes)),
        active |-> orig.active,
        _flow_positions |-> FlowPositions(nds, Len(nds))]

----------------------------------------------------------------------------
(* Handles the node components render (FlowNodes) *)

\* the ids of the source handles of a node; {} when it has none
SourceHandles(n) ==
    IF n.type = "startNode" \/ n.type = "stepNode" THEN {NoHandle}
    ELSE IF n.type = "buttonsNode"
         THEN {BtnHandle(i - 1) : i \in 1..Len(Buttons(n.data))}
    ELSE IF n.type = "actionNode" THEN {"success", "failure"}
    ELSE {}

\* every node but the start node renders a target handle
HasTargetHandle(n) == n.type # "startNode"

----------------------------------------------------------------------------
(* BotFlowEditorPage: opening a flow *)

\* the originalScript openNew sets
\* NewScript that leaves the id to the first save
NewScript_NoId(t) ==
    [script_id |-> "", name |-> "", bot_instructions |-> "",
     greeting_known |-> "", greeting_unknown |-> "", first_step |-> "",
     steps |-> <<>>, done_actions |-> <<>>, active |-> TRUE,
     _flow_positions |-> <<>>]

NewScript(t) ==
    [script_id |-> FlowIdAt(t), name |-> "", bot_instructions |-> "",
     greeting_known |-> "", greeting_unknown |-> "", first_step |-> "",
     steps |-> <<>>, done_actions |-> <<>>, active |-> TRUE,
     _flow_positions |-> <<>>]

\* originalScript before anything was opened (useState(null)); never read
NullScript == NewScript(1)

openNew ==
    /\ view = "list"
    /\ nodes' = emptyFlow.nodes
    /\ edges' = emptyFlow.edges
    /\ originalScript' = NewScript(now)
    /\ view' = "editor"
    /\ UNCHANGED <<offCanvas, stored, saving, saveMsg, inflight, now>>

openScript(s) ==
    /\ view = "list"
    /\ s \in stored
    /\ nodes' = scriptToFlow(s).nodes
    /\ edges' = scriptToFlow(s).edges
    /\ originalScript' = s
    /\ view' = "editor"
    /\ UNCHANGED <<offCanvas, stored, saving, saveMsg, inflight, now>>

----------------------------------------------------------------------------
(* FlowCanvas: editing operations *)

\* addEdge of the flow library: a connection that already exists (same
\* source, source handle and target) is not added again
AddEdge(e, eds) ==
    IF \E k \in 1..Len(eds) :
          /\ eds[k].source = e.source
          /\ eds[k].sourceHandle = e.sourceHandle
          /\ eds[k].target = e.target
    THEN eds ELSE Append(eds, e)

\* dragging a line from source handle h of node i to the target handle of
\* node j
onConnect(i, h, j) ==
    /\ view = "editor"
    /\ Len(edges) < MaxEdges
    /\ h \in SourceHandles(nodes[i])
    /\ HasTargetHandle(nodes[j])
    /\ edges' = AddEdge(Edge(nodes[i].id, h, nodes[j].id), edges)
    /\ UNCHANGED <<offCanvas, stored, view, nodes, originalScript, saving,
                   saveMsg, inflight, now>>

\* SidePanel's delete button (not rendered for the start node)
deleteNode(i) ==
    /\ view = "editor"
    /\ nodes[i].type # "startNode"
    /\ LET id == nodes[i].id
           Keep(n) == n.id # id
           KeepEdge(e) == e.source # id /\ e.target # id
       IN /\ nodes' = SelectSeq(nodes, Keep)
          /\ edges' = SelectSeq(edges, KeepEdge)
    /\ UNCHANGED <<offCanvas, stored, view, originalScript, saving,
                   saveMsg, inflight, now>>

\* <ReactFlow onNodesChange deleteKeyCode="Delete">: pressing Delete on the
\* selected node removes it and the edges connected to it; no node is
\* marked undeletable, the start node included
onNodesChange(i) ==
    /\ view = "editor"
    /\ LET id == nodes[i].id
           Keep(n) == n.id # id
           KeepEdge(e) == e.source # id /\ e.target # id
       IN /\ nodes' = SelectSeq(nodes, Keep)
          /\ edges' = SelectSeq(edges, KeepEdge)
    /\ UNCHANGED <<offCanvas, stored, view, originalScript, saving,
                   saveMsg, inflight, now>>

\* the position every add*Node gives the new node
NewPos(nds) == Pos(170, 250 + Len(nds) * 30)

NewButton(id) == [id |-> id, title |-> <<>>, next_step |-> "", skip_if |-> NoSkip]

addStepNode ==
    /\ view = "editor"
    /\ Len(nodes) < MaxNodes
    /\ nodes' = Append(nodes,
          [id |-> StepIdAt(now), type |-> "stepNode", position |-> NewPos(nodes),
           data |-> [id |-> StepIdAt(now), type |-> "text_input", text |-> "",
                     save_to |-> "", next_step |-> "", skip_if |-> NoSkip]])
    /\ UNCHANGED <<offCanvas, stored, view, edges, originalScript, saving,
                   saveMsg, inflight, now>>

addButtonsNode ==
    /\ view = "editor"
    /\ Len(nodes) < MaxNodes
    /\ nodes' = Append(nodes,
          [id |-> StepIdAt(now), type |-> "buttonsNode",
           position |-> NewPos(nodes),
           data |-> [id |-> StepIdAt(now), type |-> "buttons", text |-> "",
                     buttons |-> <<NewButton("btn_1"), NewButton("btn_2")>>,
                     skip_if |-> NoSkip]])
    /\ UNCHANGED <<offCanvas, stored, view, edges, originalScript, saving,
                   saveMsg, inflight, now>>

addActionNode ==
    /\ view = "editor"
    /\ Len(nodes) < MaxNodes
    /\ nodes' = Append(nodes,
          [id |-> ActionIdAt(now), type |-> "actionNode",
           position |-> NewPos(nodes),
           data |-> [id |-> ActionIdAt(now), action_type |-> "check_equipment",
                     field |-> "device_number", description |-> "",
                     on_success |-> "", on_failure |-> "",
                     skip_if |-> NoSkip]])
    /\ UNCHANGED <<offCanvas, stored, view, edges, originalScript, saving,
                   saveMsg, inflight, now>>

addDoneNode ==
    /\ view = "editor"
    /\ Len(nodes) < MaxNodes
    /\ nodes' = Append(nodes,
          [id |-> DoneIdAt(now), type |-> "doneNode", position |-> NewPos(nodes),
           data |-> [id |-> DoneIdAt(now), text |-> "",
                     action |-> "save_service_call", target_script_id |-> ""]])
    /\ UNCHANGED <<offCanvas, stored, view, edges, originalScript, saving,
                   saveMsg, inflight, now>>

\* updateNodeData(id, newData): every node with that id takes the new data
updateNodeData(nds, id, newData) ==
    [k \in 1..Len(nds) |->
        IF nds[k].id = id THEN [nds[k] EXCEPT !.data = newData] ELSE nds[k]]

\* SidePanel.addButton on the selected node i
addButton(i) ==
    /\ view = "editor"
    /\ nodes[i].type = "buttonsNode"
    /\ Len(Buttons(nodes[i].data)) < 3
    /\ nodes' = updateNodeData(nodes, nodes[i].id,
          [nodes[i].data EXCEPT
              !.buttons = Append(Buttons(nodes[i].data),
                                 NewButton(BtnIdAt(now)))])
    /\ UNCHANGED <<offCanvas, stored, view, edges, originalScript, saving,
                   saveMsg, inflight, now>>

\* buttons.splice(bi, 1)
Splice1(s, bi) ==
    [k \in 1..(Len(s) - 1) |-> IF k <= bi THEN s[k] ELSE s[k + 1]]

\* SidePanel.removeButton(bi) on the selected node i
removeButton(i, bi) ==
    /\ view = "editor"
    /\ nodes[i].type = "buttonsNode"
    /\ bi \in 0..(Len(Buttons(nodes[i].data)) - 1)
    /\ nodes' = updateNodeData(nodes, nodes[i].id,
          [nodes[i].data EXCEPT !.buttons = Splice1(Buttons(nodes[i].data), bi)])
    /\ UNCHANGED <<offCanvas, stored, view, edges, originalScript, saving,
                   saveMsg, inflight, now>>

\* onEdgesChange with a remove change: the Delete key on the selected edge k
onEdgesChange(k) ==
    /\ view = "editor"
    /\ k \in 1..Len(edges)
    /\ edges' = [j \in 1..(Len(edges) - 1) |->
                    IF j < k THEN edges[j] ELSE edges[j + 1]]
    /\ UNCHANGED <<offCanvas, stored, view, nodes, originalScript, saving,
                   saveMsg, inflight, now>>

\* time passes
Tick ==
    /\ now < MaxNow
    /\ now' = now + 1
    /\ UNCHANGED <<offCanvas, stored, view, nodes, edges, originalScript, saving,
                   saveMsg, inflight>>

----------------------------------------------------------------------------
(* FlowCanvas.handleSave and the page's onSaved *)

\* handleSave refusing a graph that has not exactly one start node
handleSave_Validating ==
    /\ view = "editor"
    /\ ~saving
    /\ Len(SelectSeq(nodes, IsStartNode)) = 1
    /\ saving' = TRUE
    /\ saveMsg' = ""
    /\ inflight' = <<flowToScript(nodes, edges, originalScript, now)>>
    /\ UNCHANGED <<offCanvas, stored, view, nodes, edges, originalScript, now>>

\* up to the await of the PUT: the save button is disabled while saving
handleSave ==
    /\ view = "editor"
    /\ ~saving
    /\ saving' = TRUE
    /\ saveMsg' = ""
    /\ inflight' = <<flowToScript(nodes, edges, originalScript, now)>>
    /\ UNCHANGED <<offCanvas, stored, view, nodes, edges, originalScript, now>>

\* the response handled as if every response had data.ok
saveResponse_Optimistic(ok) ==
    /\ saving
    /\ inflight # <<>>
    /\ originalScript' = inflight[1]
    /\ saveMsg' = IF ok THEN "saved" ELSE "error"
    /\ saving' = FALSE
    /\ inflight' = <<>>
    /\ UNCHANGED <<offCanvas, stored, view, nodes, edges, now>>

\* the response arrives: data.ok sets the success message and calls onSave,
\* which sets originalScript; an error response or a thrown fetch only sets
\* the error message (data.error or e.message after the same prefix)
saveResponse(ok) ==
    /\ saving
    /\ inflight # <<>>
    /\ originalScript' = IF ok THEN inflight[1] ELSE originalScript
    /\ saveMsg' = IF ok THEN "saved" ELSE "error"
    /\ saving' = FALSE
    /\ inflight' = <<>>
    /\ UNCHANGED <<offCanvas, stored, view, nodes, edges, now>>

----------------------------------------------------------------------------
(* BotScriptsPage: the simple and the advanced script editor *)

\* title.slice(0, 20)
TitleCap == 20

\* String.prototype.slice(0, n)
Slice(s, n) == SubSeq(s, 1, IF Len(s) < n THEN Len(s) ELSE n)

\* b.trim() is a non-empty string
Trimmed(b) == \E i \in 1..Len(b) : b[i] # " "

NoButtons == << <<>>, <<>>, <<>> >>

emptySimple ==
    [name |-> "", greeting |-> "",
     steps |-> << [text |-> "", type |-> "text_input", buttons |-> NoButtons] >>,
     done_text |-> "", done_action |-> "save_service_call"]

\* `STEP_${i + 1}`, `field_${i + 1}`, `btn_${i + 1}_${bi + 1}`
SimpleStepId(i) == <<"STEP_1", "STEP_2", "STEP_3", "STEP_4">>[i]

SimpleField(i) == <<"field_1", "field_2", "field_3", "field_4">>[i]

SimpleBtnId(i, bi) ==
    << <<"btn_1_1", "btn_1_2", "btn_1_3">>, <<"btn_2_1", "btn_2_2", "btn_2_3">>,
       <<"btn_3_1", "btn_3_2", "btn_3_3">>, <<"btn_4_1", "btn_4_2", "btn_4_3">>
    >>[i][bi]

\* a step of a script as the page holds it; a field the object lacks is ""
\* (<<>> for buttons, NoSkip for skip_if)
ScriptStep(id, type, text, save_to, next_step, buttons, skip_if) ==
    [id |-> id, type |-> type, text |-> text, save_to |-> save_to,
     next_step |-> next_step, buttons |-> buttons, skip_if |-> skip_if]

simpleToScript(form, scriptId) ==
    LET n == Len(form.steps)
        nextTarget(i) == IF i < n THEN SimpleStepId(i + 1) ELSE "DONE_1"
        step(i) ==
            IF form.steps[i].type = "text_input"
            THEN ScriptStep(SimpleStepId(i), "text_input", form.steps[i].text,
                            SimpleField(i), nextTarget(i), <<>>, NoSkip)
            ELSE LET validButtons == SelectSeq(form.steps[i].buttons, Trimmed)
                 IN ScriptStep(SimpleStepId(i), "buttons", form.steps[i].text,
                        "", "",
                        [bi \in 1..Len(validButtons) |->
                            [id |-> SimpleBtnId(i, bi),
                             title |-> Slice(validButtons[bi], TitleCap),
                             next_step |-> nextTarget(i),
                             skip_if |-> NoSkip]],
                        NoSkip)
    IN [script_id |-> scriptId, name |-> form.name, bot_instructions |-> "",
        greeting_known |-> form.greeting, greeting_unknown |-> form.greeting,
        first_step |-> IF n > 0 THEN SimpleStepId(1) ELSE "DONE_1",
        steps |-> [i \in 1..n |-> step(i)],
        done_actions |-> << [id |-> "DONE_1",
                             val |-> [text |-> form.done_text,
                                      action |-> form.done_action,
                                      target_script_id |-> ""]] >>,
        active |-> TRUE, _flow_positions |-> <<>>]

\* btns padded with '' to three, then btns.slice(0, 3)
ThreeTitles(btns) ==
    [bi \in 1..3 |-> IF bi <= Len(btns) THEN btns[bi].title ELSE <<>>]

scriptToSimple(script) ==
    [name |-> script.name,
     greeting |-> Or(script.greeting_known, script.greeting_unknown),
     steps |-> [i \in 1..Len(script.steps) |->
        IF script.steps[i].type = "buttons"
        THEN [text |-> Str(script.steps[i], "text"), type |-> "buttons",
              buttons |-> ThreeTitles(Buttons(script.steps[i]))]
        ELSE [text |-> Str(script.steps[i], "text"), type |-> "text_input",
              buttons |-> NoButtons]],
     done_text |-> IF script.done_actions = <<>> THEN ""
                   ELSE script.done_actions[1].val.text,
     done_action |-> IF script.done_actions = <<>> THEN "save_service_call"
                     ELSE Or(script.done_actions[1].val.action,
                             "save_service_call")]

\* `script_${Date.now()}`
ScriptIdAt(t) == <<"script_T1", "script_T2", "script_T3", "script_T4">>[t]

\* BotScriptsPage as mounted: the list view
ScriptsPageInit ==
    /\ scriptsView = "list"
    /\ simple = emptySimple
    /\ editingId = ""
    /\ editing = NullScript

\* BotScriptsPage.openNew
scriptsOpenNew ==
    /\ scriptsView = "list"
    /\ editingId' = ScriptIdAt(now)
    /\ simple' = emptySimple
    /\ scriptsView' = "simple"
    /\ UNCHANGED <<stored, flowEditor, backend, pages, now, editing>>

\* a stored script in the shape the page holds it: every step with all the
\* fields of ScriptStep
Fetched(s) ==
    [s EXCEPT !.steps = [i \in 1..Len(s.steps) |->
        ScriptStep(s.steps[i].id, s.steps[i].type, Str(s.steps[i], "text"),
                   Str(s.steps[i], "save_to"), Str(s.steps[i], "next_step"),
                   Buttons(s.steps[i]), s.steps[i].skip_if)]]

openEdit(s) ==
    /\ scriptsView = "list"
    /\ s \in stored
    /\ editingId' = s.script_id
    /\ simple' = scriptToSimple(s)
    /\ editing' = Fetched(s)
    /\ scriptsView' = "simple"
    /\ UNCHANGED <<stored, flowEditor, backend, pages, now>>

\* the simple editor's "advanced" link
toAdvanced ==
    /\ scriptsView = "simple"
    /\ editing' = simpleToScript(simple, editingId)
    /\ scriptsView' = "advanced"
    /\ UNCHANGED <<stored, flowEditor, backend, pages, now, simple, editingId>>

\* the advanced editor's "back to simple" button
toSimple ==
    /\ scriptsView = "advanced"
    /\ scriptsView' = "simple"
    /\ UNCHANGED <<stored, flowEditor, backend, pages, now, simple, editingId, editing>>

\* advUpdateStep(si, 'id', value): the step id input, any typed value
advUpdateStepId(si, value) ==
    /\ scriptsView = "advanced"
    /\ si \in 1..Len(editing.steps)
    /\ editing' = [editing EXCEPT !.steps[si].id = value]
    /\ UNCHANGED <<stored, flowEditor, backend, pages, now, scriptsView, simple, editingId>>

advAddStep ==
    /\ scriptsView = "advanced"
    /\ Len(editing.steps) < MaxSteps
    /\ editing' = [editing EXCEPT !.steps = Append(@,
          ScriptStep(StepIdAt(now), "text_input", "", "", "", <<>>, NoSkip))]
    /\ UNCHANGED <<stored, flowEditor, backend, pages, now, scriptsView, simple, editingId>>

advRemoveStep(si) ==
    /\ scriptsView = "advanced"
    /\ si \in 1..Len(editing.steps)
    /\ editing' = [editing EXCEPT !.steps = Splice1(@, si - 1)]
    /\ UNCHANGED <<stored, flowEditor, backend, pages, now, scriptsView, simple, editingId>>

\* what an input with maxLength={20} holds after v was typed or pasted
MaxLength(v) == Slice(v, TitleCap)

\* updateStep(i, 'type', value) of the simple editor: the type select
updateStepType(i, value) ==
    /\ scriptsView = "simple"
    /\ i \in 1..Len(simple.steps)
    /\ simple' = [simple EXCEPT !.steps[i] =
          [@ EXCEPT !.type = value,
                    !.buttons = IF value = "buttons" /\ Len(@) = 0
                                THEN NoButtons ELSE @]]
    /\ UNCHANGED <<stored, flowEditor, backend, pages, now, scriptsView, editingId, editing>>

\* addStep of the simple editor
addStep ==
    /\ scriptsView = "simple"
    /\ Len(simple.steps) < MaxSteps
    /\ simple' = [simple EXCEPT !.steps = Append(@,
          [text |-> "", type |-> "text_input", buttons |-> NoButtons])]
    /\ UNCHANGED <<stored, flowEditor, backend, pages, now, scriptsView,
                   editingId, editing>>

\* removeStep(i), i 0-based; the control is rendered while there is more
\* than one step
removeStep(i) ==
    /\ scriptsView = "simple"
    /\ Len(simple.steps) > 1
    /\ i \in 0..(Len(simple.steps) - 1)
    /\ simple' = [simple EXCEPT !.steps = Splice1(@, i)]
    /\ UNCHANGED <<stored, flowEditor, backend, pages, now, scriptsView,
                   editingId, editing>>

\* moveStep(i, dir), i 0-based, dir -1 or 1: swap with the neighbour
moveStep(i, dir) ==
    /\ scriptsView = "simple"
    /\ i \in 0..(Len(simple.steps) - 1)
    /\ i + dir \in 0..(Len(simple.steps) - 1)
    /\ simple' = [simple EXCEPT !.steps =
          [@ EXCEPT ![i + 1] = simple.steps[i + dir + 1],
                    ![i + dir + 1] = simple.steps[i + 1]]]
    /\ UNCHANGED <<stored, flowEditor, backend, pages, now, scriptsView,
                   editingId, editing>>

\* updateButton(stepIdx, btnIdx, value) of the simple editor: one of the
\* three title inputs of a buttons step, btnIdx 0-based
updateButton(stepIdx, btnIdx, value) ==
    /\ scriptsView = "simple"
    /\ stepIdx \in 1..Len(simple.steps)
    /\ simple.steps[stepIdx].type = "buttons"
    /\ btnIdx \in 0..2
    /\ simple' = [simple EXCEPT !.steps[stepIdx].buttons[btnIdx + 1] =
                                    MaxLength(value)]
    /\ UNCHANGED <<stored, flowEditor, backend, pages, now, scriptsView, editingId, editing>>

\* advUpdateButton(si, bi, 'title', value): the title input of a button
advUpdateButtonTitle(si, bi, value) ==
    /\ scriptsView = "advanced"
    /\ si \in 1..Len(editing.steps)
    /\ editing.steps[si].type = "buttons"
    /\ bi \in 0..(Len(editing.steps[si].buttons) - 1)
    /\ editing' = [editing EXCEPT !.steps[si].buttons[bi + 1].title =
                                      MaxLength(value)]
    /\ UNCHANGED <<stored, flowEditor, backend, pages, now, scriptsView, simple, editingId>>

\* advAddButton(si); the "+ button" control is rendered while the step has
\* fewer than three buttons
advAddButton(si) ==
    /\ scriptsView = "advanced"
    /\ si \in 1..Len(editing.steps)
    /\ editing.steps[si].type = "buttons"
    /\ Len(editing.steps[si].buttons) < 3
    /\ editing' = [editing EXCEPT !.steps[si].buttons =
                                      Append(@, NewButton(BtnIdAt(now)))]
    /\ UNCHANGED <<stored, flowEditor, backend, pages, now, scriptsView, simple, editingId>>

\* advRemoveButton(si, bi): buttons.splice(bi, 1)
advRemoveButton(si, bi) ==
    /\ scriptsView = "advanced"
    /\ si \in 1..Len(editing.steps)
    /\ editing.steps[si].type = "buttons"
    /\ bi \in 0..(Len(editing.steps[si].buttons) - 1)
    /\ editing' = [editing EXCEPT !.steps[si].buttons = Splice1(@, bi)]
    /\ UNCHANGED <<stored, flowEditor, backend, pages, now, scriptsView, simple, editingId>>

\* advGetAllTargets(): the ids of all steps, then the ids of all terminals
advGetAllTargets(script) ==
    {script.steps[k].id : k \in 1..Len(script.steps)}
    \cup ObjKeys(script.done_actions)

\* advUpdateStepSkipIf(si, field, value): a missing skip_if is created first
advUpdateStepSkipIf(si, field, value) ==
    /\ scriptsView = "advanced"
    /\ si \in 1..Len(editing.steps)
    /\ editing' = [editing EXCEPT !.steps[si].skip_if =
          [[@ EXCEPT !.present = TRUE] EXCEPT ![field] = value]]
    /\ UNCHANGED <<stored, flowEditor, backend, pages, now, scriptsView, simple, editingId>>

\* the "+ skip condition" button, shown while the step has no skip_if
addSkipIf(si) ==
    /\ si \in 1..Len(editing.steps)
    /\ ~editing.steps[si].skip_if.present
    /\ advUpdateStepSkipIf(si, "field", "")

\* the skip field input, shown while the step has a skip_if
typeSkipField(si, value) ==
    /\ si \in 1..Len(editing.steps)
    /\ editing.steps[si].skip_if.present
    /\ advUpdateStepSkipIf(si, "field", value)

\* the skip goto select: its options are '' and advGetAllTargets()
selectSkipGoto(si, value) ==
    /\ si \in 1..Len(editing.steps)
    /\ editing.steps[si].skip_if.present
    /\ value \in {""} \cup advGetAllTargets(editing)
    /\ advUpdateStepSkipIf(si, "goto", value)

\* advRemoveStepSkipIf(si): delete next.steps[si].skip_if
advRemoveStepSkipIf(si) ==
    /\ scriptsView = "advanced"
    /\ si \in 1..Len(editing.steps)
    /\ editing.steps[si].skip_if.present
    /\ editing' = [editing EXCEPT !.steps[si].skip_if = NoSkip]
    /\ UNCHANGED <<stored, flowEditor, backend, pages, now, scriptsView, simple, editingId>>

advAddDoneAction ==
    /\ scriptsView = "advanced"
    /\ Len(editing.done_actions) < MaxDones
    /\ editing' = [editing EXCEPT !.done_actions = ObjPut(@, DoneIdAt(now),
          [text |-> "", action |-> "save_message", target_script_id |-> ""])]
    /\ UNCHANGED <<stored, flowEditor, backend, pages, now, scriptsView, simple, editingId>>

\* delete obj[key]
ObjDelete(obj, key) ==
    LET Keep(entry) == entry.id # key IN SelectSeq(obj, Keep)

advRemoveDoneAction(id) ==
    /\ scriptsView = "advanced"
    /\ ObjHas(editing.done_actions, id)
    /\ editing' = [editing EXCEPT !.done_actions = ObjDelete(@, id)]
    /\ UNCHANGED <<stored, flowEditor, backend, pages, now, scriptsView, simple, editingId>>

\* the terminal id input, any typed value
advRenameDoneAction(oldId, newId) ==
    /\ scriptsView = "advanced"
    /\ ObjHas(editing.done_actions, oldId)
    /\ oldId # newId
    /\ editing' = [editing EXCEPT !.done_actions =
          ObjDelete(ObjPut(@, newId, ObjGet(@, oldId)), oldId)]
    /\ UNCHANGED <<stored, flowEditor, backend, pages, now, scriptsView, simple, editingId>>

----------------------------------------------------------------------------
(* lambda-invoice-closer: exports.handler and finalizeInvoice *)

\* the Lambda event: NullEvent for a null payload, else <<the object>>;
\* an object without ivnum has ivnum undefined, written ""
NullEvent == <<>>

Events == {NullEvent} \cup {<<[ivnum |-> v]>> : v \in {"", "T99", "T77"}}

\* a thrown or rejected value: an Error, or a plain object of the SDK
Err(m) == [kind |-> "Error", message |-> m, text |-> ""]

SdkErrors ==
    {Err("sdk failure"), Err(""),
     [kind |-> "object", message |-> "", text |-> "sdk text"],
     [kind |-> "object", message |-> "", text |-> ""]}

\* String(err) of a value without a message
StringOf(err) == IF err.kind = "Error" THEN "Error" ELSE "[object Object]"

\* loginErr.message || loginErr.text || JSON.stringify(loginErr)
LoginMessage(err) == Or(err.message, Or(err.text, "{}"))

\* `${label} timed out after ${ms}ms`
TimedOut(label) ==
    IF label = "activateStart" THEN "activateStart timed out after 30000ms"
    ELSE "activateEnd timed out after 30000ms"

\* the IVNUM columns of the rows form.getRows(1) loads, in row order;
\* NoData for rows without AINVOICES
NoData == <<"no data">>

RowSets == {NoData, <<>>, <<"T99">>, <<"T77", "T99">>, <<"T99", "T77", "T99">>}

\* where the handler is, the event, the SDK calls that completed, the
\* settled promise (<<>> while pending, then <<"rejected">> or
\* <<"resolved", value>>), formData and targetRow of finalizeInvoice, and
\* whether form.endCurrentForm() was called
CloserAt(pc, event, calls, settled) ==
    [pc |-> pc, event |-> event, calls |-> calls, settled |-> settled,
     formData |-> NoData, targetRow |-> 0, ended |-> FALSE]

\* the places where finalizeInvoice awaits form.endCurrentForm()
EndCalls == {"endNoData", "endNotFound", "endCurrentForm"}

CloserInit == closer = CloserAt("idle", NullEvent, <<>>, <<>>)

\* an exception that leaves exports.handler: the returned promise rejects
Rejected(c) == [c EXCEPT !.pc = "done", !.settled = <<"rejected">>]

\* catch (err) of exports.handler that throws the error on
Caught_Rethrow(c, err) == Rejected(c)

\* catch (err) of exports.handler
Caught(c, err) ==
    [c EXCEPT !.pc = "done",
              !.settled = <<"resolved",
                            [ok |-> FALSE,
                             error |-> Or(err.message, StringOf(err))]>>]

\* the call awaited at c.pc completed: go on at pc
Completed(c, pc) ==
    [c EXCEPT !.pc = pc, !.calls = Append(@, c.pc),
              !.ended = @ \/ pc \in EndCalls]

\* exports.handler up to the first await: the ivnum check, parseConfig and
\* the call of login; urlOk says whether PRIORITY_URL matches the pattern
handler(event, urlOk) ==
    /\ closer.pc = "idle"
    /\ closer' =
          LET c == CloserAt("idle", event, <<>>, <<>>)
          IN IF event = NullEvent THEN Rejected(c)
             ELSE IF event[1].ivnum = ""
             THEN CloserAt("done", event, <<>>,
                      <<"resolved",
                        [ok |-> FALSE,
                         error |-> "Missing ivnum in event payload"]>>)
             ELSE IF ~urlOk THEN Caught(c, Err("Cannot parse PRIORITY_URL"))
             ELSE CloserAt("login", event, <<>>, <<>>)
    /\ UNCHANGED <<editors, bot, pages>>

\* await login(loginCfg) settles
loginSettles(res) ==
    /\ closer.pc = "login"
    /\ closer' = IF res = <<>> THEN Completed(closer, "formStart")
                 ELSE Caught(closer, Err(LoginMessage(res[1])))
    /\ UNCHANGED <<editors, bot, pages>>

\* await formStart('AINVOICES', ...) settles
formStartSettles(res) ==
    /\ closer.pc = "formStart"
    /\ closer' = IF res = <<>> THEN Completed(closer, "getRows")
                 ELSE Caught(closer, res[1])
    /\ UNCHANGED <<editors, bot, pages>>

\* the index of the first row whose IVNUM is ivnum, or 0
TargetRow(rows, ivnum) ==
    IF \E k \in 1..Len(rows) : rows[k] = ivnum
    THEN CHOOSE k \in 1..Len(rows) :
            rows[k] = ivnum /\ \A j \in 1..(k - 1) : rows[j] # ivnum
    ELSE 0

\* await form.getRows(1) settles, and the row is looked up
getRowsSettles(res, rows) ==
    /\ closer.pc = "getRows"
    /\ closer' =
          IF res # <<>> THEN Caught(closer, res[1])
          ELSE LET c == [closer EXCEPT
                            !.formData = rows,
                            !.targetRow = IF rows = NoData THEN 0
                                          ELSE TargetRow(rows, closer.event[1].ivnum)]
               IN IF rows = NoData THEN Completed(c, "endNoData")
                  ELSE IF c.targetRow = 0 THEN Completed(c, "endNotFound")
                  ELSE Completed(c, "setActiveRow")
    /\ UNCHANGED <<editors, bot, pages>>

\* await form.endCurrentForm() settles before one of the two throws
endFormThrows(res) ==
    /\ closer.pc \in {"endNoData", "endNotFound"}
    /\ closer' =
          IF res # <<>> THEN Caught(closer, res[1])
          ELSE IF closer.pc = "endNoData"
          THEN Caught(closer, Err("No invoice data loaded"))
          ELSE Caught(closer, Err("Invoice not found in loaded data"))
    /\ UNCHANGED <<editors, bot, pages>>

\* await form.setActiveRow(targetRow) settles
setActiveRowSettles(res) ==
    /\ closer.pc = "setActiveRow"
    /\ closer' = IF res = <<>> THEN Completed(closer, "activateStart")
                 ELSE Caught(closer, res[1])
    /\ UNCHANGED <<editors, bot, pages>>

\* withTimeout(fn, label): the call settles, or the timer fires first
withTimeout(label, next, res, timeout) ==
    /\ closer.pc = label
    /\ closer' = IF timeout THEN Caught(closer, Err(TimedOut(label)))
                 ELSE IF res = <<>> THEN Completed(closer, next)
                 ELSE Caught(closer, res[1])
    /\ UNCHANGED <<editors, bot, pages>>

\* await form.endCurrentForm() settles; return { ok: true, ivnum }
endFormReturns(res) ==
    /\ closer.pc = "endCurrentForm"
    /\ closer' =
          IF res # <<>> THEN Caught(closer, res[1])
          ELSE [Completed(closer, "done") EXCEPT
                   !.settled = <<"resolved",
                                 [ok |-> TRUE,
                                  ivnum |-> closer.event[1].ivnum]>>]
    /\ UNCHANGED <<editors, bot, pages>>

----------------------------------------------------------------------------
(* The execution engine of the bot scripts: one session.  Prompt steps and *)
(* terminals; the events are those the diagnostics page renders.           *)

\* skip_if with its condition: mode is "empty", "not_empty" or "equals"
SkipIf(field, mode, value, goto) ==
    [present |-> TRUE, field |-> field, mode |-> mode, equals |-> value,
     goto |-> goto]

NoSkipIf == [present |-> FALSE, field |-> "", mode |-> "", equals |-> "",
             goto |-> ""]

\* the skip condition evaluated against the session's field map
SkipSatisfied(skip, fields) ==
    LET v == IF skip.field \in DOMAIN fields THEN fields[skip.field] ELSE ""
    IN CASE skip.mode = "empty" -> v = ""
         [] skip.mode = "not_empty" -> v # ""
         [] skip.mode = "equals" -> v = skip.equals
         [] OTHER -> FALSE

\* a step that is never skipped
ShouldSkip_Never(step, fields) == FALSE

\* whether the step is bypassed instead of shown
ShouldSkip(step, fields) ==
    step.skip_if.present /\ SkipSatisfied(step.skip_if, fields)

\* the ids of the steps of a script, and the step with a given id
EngineStepIds(script) == {script.steps[k].id : k \in 1..Len(script.steps)}

EngineStepAt(script, id) ==
    script.steps[CHOOSE k \in 1..Len(script.steps) : script.steps[k].id = id]

\* an entry of the event log
LogEntry(event, step, field, target) ==
    [event |-> event, step |-> step, field |-> field, target |-> target,
     action |-> ""]

\* the action tag of the terminal id
ActionTag(script, id) == ObjGet(script.done_actions, id).action

\* a terminal that is reached without ending the session
ReachTerminal_Open(script, at, log, stable) ==
    [state |-> "active", step |-> stable,
     log |-> Append(log, [LogEntry("session_done", at, "", "")
                             EXCEPT !.action = ActionTag(script, at)]),
     error |-> ""]

\* the terminal `at` is reached: session_done with its id and action tag,
\* and the session is done
ReachTerminal(script, at, log, stable) ==
    [state |-> "done", step |-> at,
     log |-> Append(log, [LogEntry("session_done", at, "", "")
                             EXCEPT !.action = ActionTag(script, at)]),
     error |-> ""]

\* a revisit that is not detected: the pass stops at the revisited step
SkipCycleError_Silent(at, log, stable) ==
    [state |-> "active", step |-> at, log |-> log, error |-> ""]

\* the step `at` is revisited within one pass: the transition is aborted
\* and the session is left at its last stable step
SkipCycleError(at, log, stable) ==
    [state |-> "active", step |-> stable, log |-> log,
     error |-> "SkipCycleError"]

\* evaluation pass: from the location `at`, follow satisfied skip
\* conditions, then show the step reached or finish at the terminal
\* reached; visited holds the steps skipped in this pass, stable the step
\* the session was at before the pass
RECURSIVE ShowPass(_, _, _, _, _, _)
ShowPass(script, fields, at, log, visited, stable) ==
    IF at \in visited
    THEN SkipCycleError(at, log, stable)
    ELSE IF at \in ObjKeys(script.done_actions)
    THEN ReachTerminal(script, at, log, stable)
    ELSE IF at \notin EngineStepIds(script)
    THEN [state |-> "failed", step |-> stable, log |-> log,
          error |-> "ReferenceError"]
    ELSE LET step == EngineStepAt(script, at)
         IN IF ShouldSkip(step, fields)
            THEN ShowPass(script, fields, step.skip_if.goto,
                          Append(log, LogEntry("skip_if_triggered", at,
                                  step.skip_if.field, step.skip_if.goto)),
                          visited \cup {at}, stable)
            ELSE [state |-> "active", step |-> at,
                  log |-> Append(log, LogEntry("step_shown", at, "", "")),
                  error |-> ""]

\* the session after a pass
AfterPass(script, fields, pass) ==
    [state |-> pass.state, step |-> pass.step, fields |-> fields,
     log |-> pass.log, error |-> pass.error, script |-> script]

\* the scripts the engine runs: two prompt steps and one terminal
EngineSkips(self) ==
    {NoSkipIf} \cup
    {SkipIf("device_number", m, "D1", g) :
        m \in {"empty", "not_empty", "equals"},
        g \in {"STEP_1", "STEP_2", "DONE_1"} \ {self}}

EngineStep(id, save_to, next_step, skip_if) ==
    [id |-> id, type |-> "text_input", text |-> "?", save_to |-> save_to,
     next_step |-> next_step, skip_if |-> skip_if]

\* the example script: one prompt stored under desc, then DONE_1
ExampleScript ==
    [script_id |-> "X", first_step |-> "STEP_1",
     steps |-> <<EngineStep("STEP_1", "desc", "DONE_1", NoSkipIf)>>,
     done_actions |-> << [id |-> "DONE_1",
                          val |-> [text |-> "thanks", action |-> "save_message",
                                   target_script_id |-> ""]] >>]

EngineScripts ==
    {ExampleScript} \cup
    {[script_id |-> "E", first_step |-> "STEP_1",
      steps |-> <<EngineStep("STEP_1", "device_number", "STEP_2", k1),
                  EngineStep("STEP_2", "desc", "DONE_1", k2)>>,
      done_actions |-> << [id |-> "DONE_1",
                           val |-> [text |-> "bye",
                                    action |-> "save_service_call",
                                    target_script_id |-> ""]] >>] :
        k1 \in EngineSkips("STEP_1"), k2 \in EngineSkips("STEP_2")}

\* the field map at session start: the context the engine populates
StartFields == {[device_number |-> d, desc |-> ""] : d \in {"", "D1"}}

NoSession ==
    [state |-> "idle", step |-> "", fields |-> [device_number |-> "", desc |-> ""],
     log |-> <<>>, error |-> "",
     script |-> [script_id |-> "", first_step |-> "", steps |-> <<>>,
                 done_actions |-> <<>>]]

\* the session starts: session_start, then the pass from first_step
sessionStart(script, fields) ==
    /\ bot.state = "idle"
    /\ bot' = AfterPass(script, fields,
                 ShowPass(script, fields, script.first_step,
                          <<LogEntry("session_start", "", "", "")>>, {}, ""))
    /\ UNCHANGED <<editors, closer, pages>>

\* an inbound message at a prompt step: the text is stored under save_to,
\* user_input is logged, and the pass goes on from next_step
inboundMessage(text) ==
    /\ bot.state = "active"
    /\ bot.error = ""
    /\ Len(bot.log) < MaxLog
    /\ LET step == EngineStepAt(bot.script, bot.step)
           fields == [bot.fields EXCEPT ![step.save_to] = text]
       IN bot' = AfterPass(bot.script, fields,
                    ShowPass(bot.script, fields, step.next_step,
                             Append(bot.log,
                                    LogEntry("user_input", bot.step,
                                             step.save_to, "")),
                             {}, bot.step))
    /\ UNCHANGED <<editors, closer, pages>>

----------------------------------------------------------------------------
(* BotDiagnosticsPage: the session list, the selection and fetchSessions *)

\* the phones of the sessions the server holds
Phones == {"050-A", "050-B"}

\* a session record as GET /api/bot-sessions returns it; events counts the
\* entries of its session_log
SessionRecord(phone, events) == [phone |-> phone, events |-> events]

\* data.sessions for the server's state: one record per phone
Listed(server) ==
    <<SessionRecord("050-A", server["050-A"]),
      SessionRecord("050-B", server["050-B"])>>

\* data.sessions.find(s => s.phone === phone): <<>> or <<the record>>
FindPhone(sessions, phone) ==
    LET HasPhone(s) == s.phone = phone
    IN IF SelectSeq(sessions, HasPhone) = <<>> THEN <<>>
       ELSE <<Head(SelectSeq(sessions, HasPhone))>>

\* sessions and selected of the page (selected: <<>> for null), the calls
\* of fetchSessions in flight, each with the `selected` its closure holds,
\* and the number of log entries per phone on the server
DiagInit ==
    diag = [sessions |-> <<>>, selected |-> <<>>, fetches |-> {},
            server |-> [p \in Phones |-> 1]]

\* fetchSessions is called (on mount, by the refresh button or by the
\* 5-second interval) and awaits the response
fetchSessions ==
    /\ diag' = [diag EXCEPT !.fetches = @ \cup {[selected |-> diag.selected]}]
    /\ UNCHANGED <<editors, backend, simpleSaves>>

\* the response of the call f arrives with data.ok = ok
fetchSessionsDone(f, ok) ==
    /\ f \in diag.fetches
    /\ diag' =
          IF ~ok THEN [diag EXCEPT !.fetches = @ \ {f}]
          ELSE LET sessions == Listed(diag.server)
                   updated == IF f.selected = <<>> THEN <<>>
                              ELSE FindPhone(sessions, f.selected[1].phone)
               IN [diag EXCEPT !.fetches = @ \ {f},
                               !.sessions = sessions,
                               !.selected = IF updated # <<>> THEN updated
                                            ELSE @]
    /\ UNCHANGED <<editors, backend, simpleSaves>>

\* SessionCard onClick: setSelected(s)
selectSession(k) ==
    /\ k \in 1..Len(diag.sessions)
    /\ diag' = [diag EXCEPT !.selected = <<diag.sessions[k]>>]
    /\ UNCHANGED <<editors, backend, simpleSaves>>

\* the bot logs another event in the session of a phone
sessionGrows(phone) ==
    /\ diag.server[phone] < MaxEvents
    /\ diag' = [diag EXCEPT !.server[phone] = @ + 1]
    /\ UNCHANGED <<editors, backend, simpleSaves>>

----------------------------------------------------------------------------
(* BotScriptsPage: saveSimple, fetchScripts and the script list *)

\* updateField('name', value) of the simple editor
updateName(value) ==
    /\ scriptsView = "simple"
    /\ simple' = [simple EXCEPT !.name = value]
    /\ UNCHANGED <<stored, flowEditor, backend, pages, now, scriptsView,
                   editingId, editing>>

\* a request in flight: method is "POST", "PUT" or "GET"; id is the script
\* id of a save, "" for the list
Request(method, id) == [method |-> method, id |-> id]

\* scripts of the page (the ids listed), saving, the requests in flight in
\* the order they were sent, the ids the server stores, and, as history,
\* the saves issued with the active flag of the body of each, and the ids
\* whose create succeeded; the page mounts with an empty list and
\* fetchScripts() in flight
SimpleSavesInit ==
    simpleSaves = [scripts |-> {}, saving |-> FALSE,
                   requests |-> <<Request("GET", "")>>,
                   server |-> {s.script_id : s \in stored},
                   issued |-> <<>>, created |-> {}, sent |-> <<>>]

\* scripts.find(s => s.script_id === editingId) ? 'PUT' : 'POST'
SaveMethod(scripts, id) == IF id \in scripts THEN "PUT" ELSE "POST"

\* saveSimple up to its await: the save button is disabled while saving,
\* and a blank name returns early
saveSimple ==
    /\ scriptsView = "simple"
    /\ ~simpleSaves.saving
    /\ simple.name # ""
    /\ Len(simpleSaves.issued) < MaxSaves
    /\ LET req == Request(SaveMethod(simpleSaves.scripts, editingId),
                          editingId)
       IN simpleSaves' = [simpleSaves EXCEPT
                             !.saving = TRUE,
                             !.requests = Append(@, req),
                             !.issued = Append(@, req),
                             !.sent = Append(@,
                                simpleToScript(simple, editingId).active)]
    /\ UNCHANGED <<editors, backend, diag>>

\* saveAdvanced up to its await: PUT of editing to editing.script_id
saveAdvanced ==
    /\ scriptsView = "advanced"
    /\ ~simpleSaves.saving
    /\ editing # NullScript
    /\ Len(simpleSaves.issued) < MaxSaves
    /\ LET req == Request("PUT", editing.script_id)
       IN simpleSaves' = [simpleSaves EXCEPT
                             !.saving = TRUE,
                             !.requests = Append(@, req),
                             !.issued = Append(@, req),
                             !.sent = Append(@, editing.active)]
    /\ UNCHANGED <<editors, backend, diag>>

\* the requests in flight without the k-th
Without(requests, k) ==
    [j \in 1..(Len(requests) - 1) |->
        IF j < k THEN requests[j] ELSE requests[j + 1]]

\* the response of the save in flight arrives: on data.ok the list is
\* fetched again, without awaiting it, and saving is reset in every case
saveSimpleDone(k, ok) ==
    /\ k \in 1..Len(simpleSaves.requests)
    /\ simpleSaves.requests[k].method \in {"POST", "PUT"}
    /\ LET req == simpleSaves.requests[k]
       IN simpleSaves' = [simpleSaves EXCEPT
             !.saving = FALSE,
             !.requests = IF ok THEN Append(Without(@, k), Request("GET", ""))
                          ELSE Without(@, k),
             !.server = IF ok THEN @ \cup {req.id} ELSE @,
             !.created = IF ok /\ req.method = "POST" THEN @ \cup {req.id}
                         ELSE @]
    /\ UNCHANGED <<editors, backend, diag>>

\* the response of a fetchScripts in flight arrives
fetchScriptsDone(k, ok) ==
    /\ k \in 1..Len(simpleSaves.requests)
    /\ simpleSaves.requests[k].method = "GET"
    /\ simpleSaves' = [simpleSaves EXCEPT
          !.requests = Without(@, k),
          !.scripts = IF ok THEN simpleSaves.server ELSE @]
    /\ UNCHANGED <<editors, backend, diag>>

PagesInit ==
    /\ DiagInit
    /\ SimpleSavesInit

\* the state outside the editors after construction
BackendInit ==
    /\ CloserInit
    /\ bot = NoSession
    /\ PagesInit

----------------------------------------------------------------------------
(* The flow editor as a state machine *)

DoneEntry(id, txt, act, tsid) ==
    [id |-> id, val |-> [text |-> txt, action |-> act, target_script_id |-> tsid]]

Script(sid, nm, first, steps, dones) ==
    [script_id |-> sid, name |-> nm, bot_instructions |-> "",
     greeting_known |-> "hello {customer_name}", greeting_unknown |-> "hello",
     first_step |-> first, steps |-> steps, done_actions |-> dones,
     active |-> TRUE, _flow_positions |-> <<>>]

OneDone == << DoneEntry("DONE_A", "thanks", "save_message", "") >>

TwoDones ==
    << DoneEntry("DONE_A", "thanks", "save_service_call", ""),
       DoneEntry("DONE_B", "sorry", "escalate", "") >>

\* a check step with both exits
CheckScript ==
    Script("s_check", "check", "CHK",
        << [id |-> "CHK", type |-> "action", action_type |-> "check_equipment",
            field |-> "device_number", description |-> "lookup",
            on_success |-> "DONE_A", on_failure |-> "DONE_B",
            skip_if |-> NoSkip] >>,
        TwoDones)

\* a choice step with two options
MenuScript ==
    Script("s_menu", "menu", "MENU",
        << [id |-> "MENU", type |-> "buttons", text |-> "which?",
            buttons |-> << [id |-> "b_yes", title |-> <<"y", "e", "s">>,
                            next_step |-> "DONE_A", skip_if |-> NoSkip],
                           [id |-> "b_no", title |-> <<"n", "o">>,
                            next_step |-> "MENU", skip_if |-> NoSkip] >>,
            skip_if |-> NoSkip] >>,
        OneDone)

\* a prompt step guarded by a skip condition
AskScript ==
    Script("s_ask", "ask", "ASK",
        << [id |-> "ASK", type |-> "text_input", text |-> "device?",
            save_to |-> "device_number", next_step |-> "ASK",
            skip_if |-> Skip("device_number", "DONE_A")] >>,
        OneDone)

StoredScripts == {CheckScript, MenuScript, AskScript}

Init ==
    /\ stored = StoredScripts
    /\ view = "list"
    /\ nodes = <<>>
    /\ edges = <<>>
    /\ originalScript = NullScript
    /\ saving = FALSE
    /\ inflight = <<>>
    /\ saveMsg = ""
    /\ now = 1
    /\ ScriptsPageInit
    /\ BackendInit

\* editing the graph: opening a flow, adding, connecting and deleting
Next ==
    \/ openNew
    \/ \E s \in stored : openScript(s)
    \/ \E i \in 1..Len(nodes), j \in 1..Len(nodes) :
          \E h \in SourceHandles(nodes[i]) : onConnect(i, h, j)
    \/ \E i \in 1..Len(nodes) : deleteNode(i)
    \/ \E i \in 1..Len(nodes) : onNodesChange(i)
    \/ addStepNode
    \/ addButtonsNode
    \/ addActionNode
    \/ addDoneNode
    \/ \E k \in 1..Len(edges) : onEdgesChange(k)
    \/ Tick

Spec == Init /\ [][Next]_vars

\* editing the option list of choice nodes
NextOptions ==
    \/ \E s \in stored : openScript(s)
    \/ \E k \in 1..Len(edges) : onEdgesChange(k)
    \/ \E i \in 1..Len(nodes), j \in 1..Len(nodes) :
          \E h \in SourceHandles(nodes[i]) : onConnect(i, h, j)
    \/ \E i \in 1..Len(nodes) : deleteNode(i)
    \/ \E i \in 1..Len(nodes) : addButton(i)
    \/ \E i \in 1..Len(nodes) : \E bi \in 0..2 : removeButton(i, bi)
    \/ Tick

SpecOptions == Init /\ [][NextOptions]_vars

\* the ids a user types into an id input
TypedIds == {"STEP_1", "DONE_1", "X"}

\* the advanced editor: adding, removing and renaming steps and terminals
NextAdvanced ==
    \/ scriptsOpenNew
    \/ \E s \in stored : openEdit(s)
    \/ toAdvanced
    \/ toSimple
    \/ \E si \in 1..Len(editing.steps), v \in TypedIds : advUpdateStepId(si, v)
    \/ advAddStep
    \/ \E si \in 1..Len(editing.steps) : advRemoveStep(si)
    \/ advAddDoneAction
    \/ \E id \in ObjKeys(editing.done_actions) : advRemoveDoneAction(id)
    \/ \E id \in ObjKeys(editing.done_actions), v \in TypedIds :
          advRenameDoneAction(id, v)
    \/ Tick

SpecAdvanced == Init /\ [][NextAdvanced]_vars

\* the titles a user types or pastes into a title input: a short one and
\* one of TitleCap + 1 characters
LongTitle == [k \in 1..(TitleCap + 1) |-> "a"]

TypedTitles == {<<"o", "k">>, LongTitle}

\* the buttons of a script in the simple and in the advanced editor
NextButtons ==
    \/ scriptsOpenNew
    \/ \E s \in stored : openEdit(s)
    \/ \E i \in 1..Len(simple.steps), v \in {"text_input", "buttons"} :
          updateStepType(i, v)
    \/ \E i \in 1..Len(simple.steps), bi \in 0..2, v \in TypedTitles :
          updateButton(i, bi, v)
    \/ toAdvanced
    \/ \E si \in 1..Len(editing.steps), bi \in 0..2, v \in TypedTitles :
          advUpdateButtonTitle(si, bi, v)
    \/ \E si \in 1..Len(editing.steps) : advAddButton(si)
    \/ \E si \in 1..Len(editing.steps), bi \in 0..2 : advRemoveButton(si, bi)
    \/ Tick

SpecButtons == Init /\ [][NextButtons]_vars

\* the field names a user types into the skip field input
TypedFields == {"device_number"}

\* the skip conditions of the steps in the advanced editor
NextSkip ==
    \/ scriptsOpenNew
    \/ \E s \in stored : openEdit(s)
    \/ toAdvanced
    \/ advAddStep
    \/ \E si \in 1..Len(editing.steps) : addSkipIf(si)
    \/ \E si \in 1..Len(editing.steps), v \in TypedFields : typeSkipField(si, v)
    \/ \E si \in 1..Len(editing.steps) :
          \E v \in {""} \cup advGetAllTargets(editing) : selectSkipGoto(si, v)
    \/ \E si \in 1..Len(editing.steps) : advRemoveStepSkipIf(si)
    \/ Tick

SpecSkip == Init /\ [][NextSkip]_vars

\* how an awaited SDK call settles: <<>> fulfilled, <<err>> rejected
Settles == {<<>>} \cup {<<e>> : e \in SdkErrors}

\* one invocation of the invoice closer
NextCloser ==
    \/ \E e \in Events, urlOk \in BOOLEAN : handler(e, urlOk)
    \/ \E res \in Settles : loginSettles(res)
    \/ \E res \in Settles : formStartSettles(res)
    \/ \E res \in Settles, rows \in RowSets : getRowsSettles(res, rows)
    \/ \E res \in Settles : endFormThrows(res)
    \/ \E res \in Settles : setActiveRowSettles(res)
    \/ \E res \in Settles, timeout \in BOOLEAN :
          withTimeout("activateStart", "activateEnd", res, timeout)
    \/ \E res \in Settles, timeout \in BOOLEAN :
          withTimeout("activateEnd", "endCurrentForm", res, timeout)
    \/ \E res \in Settles : endFormReturns(res)

SpecCloser == Init /\ [][NextCloser]_vars

\* the texts of the inbound messages
Texts == {"", "D1", "hi"}

\* one session of the execution engine
NextEngine ==
    \/ \E s \in EngineScripts, f \in StartFields : sessionStart(s, f)
    \/ \E text \in Texts : inboundMessage(text)

SpecEngine == Init /\ [][NextEngine]_vars

\* the diagnostics page: refreshes, their responses, selections, and
\* sessions growing on the server
NextDiag ==
    \/ fetchSessions
    \/ \E f \in diag.fetches, ok \in BOOLEAN : fetchSessionsDone(f, ok)
    \/ \E k \in 1..Len(diag.sessions) : selectSession(k)
    \/ \E p \in Phones : sessionGrows(p)

SpecDiag == Init /\ [][NextDiag]_vars

\* the names a user types into the name input
TypedNames == {"", "my script"}

\* saving in the simple editor
NextSimpleSave ==
    \/ scriptsOpenNew
    \/ \E s \in stored : openEdit(s)
    \/ \E v \in TypedNames : updateName(v)
    \/ saveSimple
    \/ \E k \in 1..Len(simpleSaves.requests), ok \in BOOLEAN :
          saveSimpleDone(k, ok)
    \/ \E k \in 1..Len(simpleSaves.requests), ok \in BOOLEAN :
          fetchScriptsDone(k, ok)
    \/ Tick

SpecSimpleSave == Init /\ [][NextSimpleSave]_vars

\* the step list of the simple editor
NextLinear ==
    \/ scriptsOpenNew
    \/ addStep
    \/ \E i \in 0..(MaxSteps - 1) : removeStep(i)
    \/ \E i \in 0..(MaxSteps - 1), dir \in {-1, 1} : moveStep(i, dir)
    \/ \E i \in 1..Len(simple.steps), v \in {"text_input", "buttons"} :
          updateStepType(i, v)
    \/ \E i \in 1..Len(simple.steps), bi \in 0..2, v \in {<<>>, <<"o", "k">>} :
          updateButton(i, bi, v)

SpecLinear == Init /\ [][NextLinear]_vars

\* a stored script that was switched off
PausedScript ==
    [Script("s_paused", "paused", "ASK",
        << [id |-> "ASK", type |-> "text_input", text |-> "device?",
            save_to |-> "device_number", next_step |-> "DONE_A",
            skip_if |-> NoSkip] >>,
        OneDone) EXCEPT !.active = FALSE]

InitPaused ==
    /\ stored = StoredScripts \cup {PausedScript}
    /\ view = "list"
    /\ nodes = <<>>
    /\ edges = <<>>
    /\ originalScript = NullScript
    /\ saving = FALSE
    /\ inflight = <<>>
    /\ saveMsg = ""
    /\ now = 1
    /\ ScriptsPageInit
    /\ BackendInit

\* a stored script is opened in one of the editors and saved
NextActive ==
    \/ \E s \in stored : openScript(s)
    \/ handleSave
    \/ \E ok \in BOOLEAN : saveResponse(ok)
    \/ \E s \in stored : openEdit(s)
    \/ toAdvanced
    \/ toSimple
    \/ saveSimple
    \/ saveAdvanced
    \/ \E k \in 1..Len(simpleSaves.requests), ok \in BOOLEAN :
          saveSimpleDone(k, ok)
    \/ \E k \in 1..Len(simpleSaves.requests), ok \in BOOLEAN :
          fetchScriptsDone(k, ok)

SpecActive == InitPaused /\ [][NextActive]_vars

----------------------------------------------------------------------------
(* FlowCanvas mounted on given initialNodes, initialEdges, originalScript,  *)
(* then saved                                                              *)

Canvas(nds, eds, orig) == [nodes |-> nds, edges |-> eds, originalScript |-> orig]

\* what openScript hands to FlowCanvas for the stored script s
Opened(s) == Canvas(scriptToFlow(s).nodes, scriptToFlow(s).edges, s)

\* scripts of one or two steps "S1", "S2" and the terminal "DONE_A"
SkipChoices == {NoSkip, Skip("device_number", "DONE_A")}

PromptSteps(id) ==
    {[id |-> id, type |-> "text_input", text |-> "q", save_to |-> "f",
      next_step |-> n, skip_if |-> k] :
         n \in {"", "S1", "S2", "DONE_A"}, k \in SkipChoices}

ButtonChoices(id) ==
    {[id |-> id, title |-> <<"t">>, next_step |-> n, skip_if |-> k] :
         n \in {"S1", "DONE_A"}, k \in SkipChoices}

ChoiceSteps(id) ==
    {[id |-> id, type |-> "buttons", text |-> "q", buttons |-> bs,
      skip_if |-> k] :
         bs \in {<<b>> : b \in ButtonChoices("b1")}
                \cup {<<b, c>> : b \in ButtonChoices("b1"),
                                 c \in ButtonChoices("b2")},
         k \in SkipChoices}

CheckSteps(id) ==
    {[id |-> id, type |-> "action", action_type |-> "check_equipment",
      field |-> "device_number", description |-> "d",
      on_success |-> a, on_failure |-> b, skip_if |-> k] :
         a \in {"S2", "DONE_A"}, b \in {"", "DONE_A"}, k \in SkipChoices}

StepChoices(id) == PromptSteps(id) \cup ChoiceSteps(id) \cup CheckSteps(id)

\* every id a script defines
StepIds(s) == {s.steps[i].id : i \in 1..Len(s.steps)}

ScriptIds(s) == StepIds(s) \cup ObjKeys(s.done_actions)

\* every transition target a step names ("" for an unset one)
StepRefs(st) ==
    (IF st.type = "buttons"
     THEN {st.buttons[i].next_step : i \in 1..Len(st.buttons)}
          \cup {st.buttons[i].skip_if.goto : i \in 1..Len(st.buttons)}
     ELSE IF st.type = "action" THEN {st.on_success, st.on_failure}
     ELSE {st.next_step})
    \cup {st.skip_if.goto}

ScriptRefs(s) ==
    {s.first_step} \cup UNION {StepRefs(s.steps[i]) : i \in 1..Len(s.steps)}

NoDangling(s) == ScriptRefs(s) \subseteq ScriptIds(s) \cup {""}

CanonicalScripts ==
    {s \in {Script("s_rt", "round trip", "S1", steps, OneDone) :
              steps \in {<<a>> : a \in StepChoices("S1")}
                        \cup {<<a, b>> : a \in StepChoices("S1"),
                                         b \in StepChoices("S2")}} :
        NoDangling(s)}

PageCanvases ==
    {Canvas(emptyFlow.nodes, emptyFlow.edges, NewScript(1))}
    \cup {Opened(s) : s \in CanonicalScripts \cup StoredScripts}

StartNodeNamed(nm) ==
    [id |-> START_ID, type |-> "startNode", position |-> Pos(270, 50),
     data |-> [name |-> nm, bot_instructions |-> nm,
               greeting_known |-> nm, greeting_unknown |-> nm]]

DoneNode(id) ==
    [id |-> id, type |-> "doneNode", position |-> Pos(270, 700),
     data |-> [id |-> id, text |-> "bye", action |-> "save_message",
               target_script_id |-> ""]]

PromptNode(id, py) ==
    [id |-> id, type |-> "stepNode", position |-> Pos(270, py),
     data |-> [id |-> id, type |-> "text_input", text |-> "q",
               save_to |-> "f", next_step |-> "", skip_if |-> NoSkip]]

\* a choice node "MENU" of three options; option i holds next_step d[i] in
\* its data and, when tgt[i] # "", has an edge to tgt[i] on handle hs[i]
FanCanvases ==
    {Canvas(
        << StartNodeNamed("fan"),
           [id |-> "MENU", type |-> "buttonsNode", position |-> Pos(270, 210),
            data |-> [id |-> "MENU", type |-> "buttons", text |-> "which?",
                      buttons |-> [i \in 1..3 |->
                          [id |-> BtnHandles[i], title |-> <<"t">>,
                           next_step |-> d[i], skip_if |-> NoSkip]],
                      skip_if |-> NoSkip]],
           DoneNode("DONE_A"), DoneNode("DONE_B") >>,
        <<Edge(START_ID, NoHandle, "MENU")>>
        \o (IF tgt[1] # "" THEN <<Edge("MENU", hs[1], tgt[1])>> ELSE <<>>)
        \o (IF tgt[2] # "" THEN <<Edge("MENU", hs[2], tgt[2])>> ELSE <<>>)
        \o (IF tgt[3] # "" THEN <<Edge("MENU", hs[3], tgt[3])>> ELSE <<>>),
        NewScript(1)) :
     d \in [1..3 -> {"", "DONE_A"}],
     tgt \in [1..3 -> {"", "DONE_A", "DONE_B"}],
     hs \in {BtnHandles, OptionHandles}}

\* zero, one or two start nodes; zero, one or two edges out of the start id;
\* zero, one or two prompt nodes
StartCanvases ==
    {Canvas(starts \o steps \o <<DoneNode("DONE_A")>>,
            startEdges \o <<Edge("ASK", NoHandle, "DONE_A")>>,
            [NewScript(1) EXCEPT !.name = prev]) :
     starts \in {<<>>, <<StartNodeNamed("n1")>>,
                 <<StartNodeNamed("n1"), StartNodeNamed("n2")>>,
                 <<StartNodeNamed(""), StartNodeNamed("n2")>>},
     steps \in {<<>>, <<PromptNode("ASK", 210)>>,
                <<PromptNode("ASK2", 370), PromptNode("ASK", 210)>>},
     startEdges \in {<<>>, <<Edge(START_ID, NoHandle, "ASK")>>,
                     <<Edge(START_ID, NoHandle, "DONE_A"),
                       Edge(START_ID, NoHandle, "ASK")>>},
     prev \in {"", "prev"}}

\* the prompt nodes A, B, N1, N2 in any array order, N1 and N2 at any of two
\* heights, saved over a previous script that lists A and B in either order,
\* only A, or no step
OrderCanvases ==
    {Canvas(<<StartNodeNamed("order")>>
            \o [i \in 1..4 |->
                  PromptNode(perm[i],
                      IF perm[i] = "N1" THEN y1
                      ELSE IF perm[i] = "N2" THEN y2
                      ELSE IF perm[i] = "A" THEN 210 ELSE 50)],
            <<Edge(START_ID, NoHandle, "A")>>,
            [NewScript(1) EXCEPT
                !.steps = [i \in 1..Len(old) |-> PromptNode(old[i], 0).data]]) :
     perm \in {f \in [1..4 -> {"A", "B", "N1", "N2"}] :
                  \A i, j \in 1..4 : i # j => f[i] # f[j]},
     y1 \in {100, 300}, y2 \in {100, 300},
     old \in {<<>>, <<"A">>, <<"A", "B">>, <<"B", "A">>}}

\* a terminal node as the side panel leaves it: any text, one of the listed
\* actions, a custom action or none ('' after choosing "custom"), with or
\* without a target script
DoneNodeWith(id, txt, act, tsid) ==
    [id |-> id, type |-> "doneNode", position |-> Pos(270, 700),
     data |-> [id |-> id, text |-> txt, action |-> act,
               target_script_id |-> tsid]]

DoneChoices ==
    {DoneNodeWith(id, txt, act, tsid) :
        id \in {"DONE_A", "DONE_B"}, txt \in {"", "bye"},
        act \in {"", "escalate", "my_action"}, tsid \in {"", "other"}}

\* one or two terminal nodes
DoneCanvases ==
    {Canvas(<<StartNodeNamed("done")>> \o dones, <<>>, NewScript(1)) :
     dones \in {<<d>> : d \in DoneChoices}
               \cup {<<d1, d2>> : d1 \in DoneChoices, d2 \in DoneChoices}}

\* the stored menu script opened and one of its two options removed in the
\* side panel: the edges of both options are still there
DanglingCanvases ==
    {[Opened(MenuScript) EXCEPT !.nodes[2].data.buttons = Splice1(@, bi)] :
     bi \in 0..1}

Canvases ==
    PageCanvases \cup FanCanvases \cup StartCanvases \cup OrderCanvases
    \cup DoneCanvases \cup DanglingCanvases

InitSave ==
    /\ stored = StoredScripts
    /\ view = "editor"
    /\ \E c \in Canvases :
          /\ nodes = c.nodes
          /\ edges = c.edges
          /\ originalScript = c.originalScript
    /\ saving = FALSE
    /\ inflight = <<>>
    /\ saveMsg = ""
    /\ now = 1
    /\ ScriptsPageInit
    /\ BackendInit

NextSave ==
    \/ handleSave
    \/ \E ok \in BOOLEAN : saveResponse(ok)

SpecSave == InitSave /\ [][NextSave]_vars

\* one editor session: a script is opened or created,
\* nodes are added, and the graph is saved any number of times while time
\* passes
NextSession ==
    \/ openNew
    \/ \E s \in stored : openScript(s)
    \/ addStepNode
    \/ addDoneNode
    \/ \E i \in 1..Len(nodes) : deleteNode(i)
    \/ handleSave
    \/ \E ok \in BOOLEAN : saveResponse(ok)
    \/ Tick

SpecSession == Init /\ [][NextSession]_vars

----------------------------------------------------------------------------
(* Properties *)

InEditor == view = "editor"

\* the script a save would send from the current state
Compiled == flowToScript(nodes, edges, originalScript, now)

\* the script the save in progress sent
Sent == inflight[1]

\* the edges (by index) leaving node id, and those leaving it on handle h
EdgesFrom(id) == {k \in 1..Len(edges) : edges[k].source = id}

EdgesOn(id, h) == {k \in EdgesFrom(id) : edges[k].sourceHandle = h}

\* the step of script s with the given id
StepById(s, id) == s.steps[CHOOSE i \in 1..Len(s.steps) : s.steps[i].id = id]

DistinctIds(s) ==
    /\ \A i, j \in 1..Len(s.steps) : i # j => s.steps[i].id # s.steps[j].id
    /\ StepIds(s) \cap ObjKeys(s.done_actions) = {}

ValidCanonical(s) ==
    /\ s.script_id # "" /\ s.name # "" /\ s.first_step # ""
    /\ DistinctIds(s)
    /\ NoDangling(s)

SameButPositions(a, b) ==
    [a EXCEPT !._flow_positions = <<>>] = [b EXCEPT !._flow_positions = <<>>]

\* C1: round trip. Whenever the canvas is exactly what scriptToFlow made of
\* a valid canonical script s without dangling references, the script a
\* save sends equals s in every field but _flow_positions.
C1_RoundTrip ==
    (/\ inflight # <<>>
     /\ ValidCanonical(originalScript)
     /\ Canvas(nodes, edges, originalScript) = Opened(originalScript))
    => SameButPositions(Sent, originalScript)

\* a choice node of three options whose outgoing edges are exactly three,
\* one on each of the handles hs[1], hs[2], hs[3]
FanOutNodes(hs) ==
    {i \in 1..Len(nodes) :
        /\ nodes[i].type = "buttonsNode"
        /\ Len(Buttons(nodes[i].data)) = 3
        /\ Cardinality(EdgesFrom(nodes[i].id)) = 3
        /\ \A b \in 1..3 : Cardinality(EdgesOn(nodes[i].id, hs[b])) = 1}

\* the compiled step of such a node names, for every option, the target of
\* the edge on that option's handle
FanOutCompiled(hs) ==
    \A i \in FanOutNodes(hs) : \A b \in 1..3 :
        \A k \in EdgesOn(nodes[i].id, hs[b]) :
            StepById(Sent, nodes[i].id).buttons[b].next_step = edges[k].target

UniqueId(i) == \A j \in 1..Len(nodes) : nodes[j].id = nodes[i].id => j = i

\* check nodes all of whose outgoing edges are one edge on handle h
OnlyEdgeOn(h) ==
    {i \in 1..Len(nodes) :
        /\ nodes[i].type = "actionNode"
        /\ UniqueId(i)
        /\ Cardinality(EdgesFrom(nodes[i].id)) = 1
        /\ EdgesFrom(nodes[i].id) = EdgesOn(nodes[i].id, h)}

\* C3: check fan-out. In every graph state of the editor, a check node with
\* only a success edge compiles to on_success = that edge's target and
\* on_failure = "", and one with only a failure edge to on_failure = that
\* edge's target and on_success = "".
C3_CheckFanOut ==
    InEditor =>
        /\ \A i \in OnlyEdgeOn("success") : \A k \in EdgesFrom(nodes[i].id) :
              /\ StepById(Compiled, nodes[i].id).on_success = edges[k].target
              /\ StepById(Compiled, nodes[i].id).on_failure = ""
        /\ \A i \in OnlyEdgeOn("failure") : \A k \in EdgesFrom(nodes[i].id) :
              /\ StepById(Compiled, nodes[i].id).on_failure = edges[k].target
              /\ StepById(Compiled, nodes[i].id).on_success = ""

StartNodes == {i \in 1..Len(nodes) : IsStartNode(nodes[i])}

StartEdges == EdgesFrom(START_ID)

StepNodes == {i \in 1..Len(nodes) : IsStepNode(nodes[i])}

\* C5 as stated: a script is produced only when the start node has an
\* outgoing edge, and first_step is that edge's target.
C5_FirstStepOrFail ==
    inflight # <<>> =>
        /\ StartEdges # {}
        /\ \A k \in StartEdges : Sent.first_step = edges[k].target

\* C5 amended: first_step is the target of the first edge, in edge order,
\* that leaves the start node; when there is none compilation does not
\* fail: first_step is the id of the first step node in node order, or ""
\* when the graph has no step node (as in the freshly created empty flow).
C5_FirstStep ==
    inflight # <<>> =>
        Sent.first_step =
            IF StartEdges # {}
            THEN edges[CHOOSE k \in StartEdges :
                          \A m \in StartEdges : k <= m].target
            ELSE IF StepNodes # {}
            THEN nodes[CHOOSE i \in StepNodes : \A j \in StepNodes : i <= j].id
            ELSE ""

\* a script was sent for a graph with step nodes and no edge out of start
C5_Witness ==
    /\ inflight # <<>>
    /\ StartEdges = {}
    /\ StepNodes # {}
    /\ Sent.first_step # ""

\* C6: edge resolution default. A choice option without an edge on its own
\* handle keeps the next_step of the node data ("" if it held none); a
\* prompt node's next_step is the target of its sole outgoing edge, and ""
\* when it has no outgoing edge.
C6_EdgeDefaults ==
    inflight # <<>> =>
        \A i \in 1..Len(nodes) :
            /\ (nodes[i].type = "buttonsNode" /\ UniqueId(i)) =>
                  \A b \in 1..Len(Buttons(nodes[i].data)) :
                      EdgesOn(nodes[i].id, BtnHandle(b - 1)) = {} =>
                          StepById(Sent, nodes[i].id).buttons[b].next_step
                              = nodes[i].data.buttons[b].next_step
            /\ (nodes[i].type = "stepNode" /\ UniqueId(i)) =>
                  /\ EdgesFrom(nodes[i].id) = {} =>
                        StepById(Sent, nodes[i].id).next_step = ""
                  /\ \A k \in EdgesFrom(nodes[i].id) :
                        EdgesFrom(nodes[i].id) = {k} =>
                            StepById(Sent, nodes[i].id).next_step
                                = edges[k].target

\* a saved choice node with an option that has no edge and holds a
\* next_step in its data, beside an option that has an edge
C6_Witness ==
    /\ inflight # <<>>
    /\ \E i \in 1..Len(nodes) :
          /\ nodes[i].type = "buttonsNode"
          /\ \E b \in 1..Len(Buttons(nodes[i].data)) :
                /\ EdgesOn(nodes[i].id, BtnHandle(b - 1)) = {}
                /\ nodes[i].data.buttons[b].next_step # ""
          /\ \E b \in 1..Len(Buttons(nodes[i].data)) :
                EdgesOn(nodes[i].id, BtnHandle(b - 1)) # {}

SentIds == [i \in 1..Len(Sent.steps) |-> Sent.steps[i].id]

PrevIds == [i \in 1..Len(originalScript.steps) |-> originalScript.steps[i].id]

IsOld(id) == IndexOf(PrevIds, id) # -1

\* the vertical position of the (only) step node with this id
YOf(id) == nodes[CHOOSE i \in StepNodes : nodes[i].id = id].position.y

\* C7: stable step ordering. Steps whose id is in the previous script keep
\* their relative order from it and precede every new step; new steps are
\* in ascending vertical position; saving a graph again over the script
\* its own save produced gives the same order of steps.
C7_StableOrder ==
    inflight # <<>> =>
        /\ \A i, j \in 1..Len(SentIds) : i < j =>
              /\ (IsOld(SentIds[i]) /\ IsOld(SentIds[j])) =>
                    IndexOf(PrevIds, SentIds[i]) < IndexOf(PrevIds, SentIds[j])
              /\ IsOld(SentIds[j]) => IsOld(SentIds[i])
              /\ (~IsOld(SentIds[i]) /\ ~IsOld(SentIds[j])) =>
                    YOf(SentIds[i]) <= YOf(SentIds[j])
        /\ {SentIds[i] : i \in 1..Len(SentIds)} = {nodes[i].id : i \in StepNodes}
        /\ Len(SentIds) = Cardinality(StepNodes)
        /\ LET again == flowToScript(nodes, edges, Sent, now)
           IN [i \in 1..Len(again.steps) |-> again.steps[i].id] = SentIds

\* a save where old steps stand in the node array against the previous
\* order, a new step stands before an old one, and two new steps stand
\* against their vertical order
C7_Witness ==
    /\ inflight # <<>>
    /\ \E i, j \in StepNodes :
          /\ i < j /\ IsOld(nodes[i].id) /\ IsOld(nodes[j].id)
          /\ IndexOf(PrevIds, nodes[i].id) > IndexOf(PrevIds, nodes[j].id)
    /\ \E i, j \in StepNodes :
          i < j /\ ~IsOld(nodes[i].id) /\ IsOld(nodes[j].id)
    /\ \E i, j \in StepNodes :
          /\ i < j /\ ~IsOld(nodes[i].id) /\ ~IsOld(nodes[j].id)
          /\ nodes[i].position.y > nodes[j].position.y

\* C8: reference validity. In every graph state of the editor, every
\* first_step, next_step, on_success, on_failure, option next_step and
\* skip_if.goto of the compiled script is empty or the id of a step or
\* terminal of that script.
C8_ReferenceValidity == InEditor => NoDangling(Compiled)

\* C9: choice-edge partition. In every graph state of the editor, every
\* edge leaving a choice node is on the handle of one of its current
\* options, and no option handle carries two edges.
C9_ChoicePartition ==
    InEditor =>
        \A i \in 1..Len(nodes) : nodes[i].type = "buttonsNode" =>
            /\ \A k \in EdgesFrom(nodes[i].id) :
                  \E b \in 1..Len(Buttons(nodes[i].data)) :
                      edges[k].sourceHandle = BtnHandle(b - 1)
            /\ \A b \in 1..Len(Buttons(nodes[i].data)) :
                  Cardinality(EdgesOn(nodes[i].id, BtnHandle(b - 1))) <= 1

EdgesInto(id) == {k \in 1..Len(edges) : edges[k].target = id}

\* C10: start-node invariant. Every graph state of the editor has exactly
\* one start node, which has no incoming edge and exactly one outgoing
\* edge.
C10_StartNode ==
    InEditor =>
        /\ Cardinality(StartNodes) = 1
        /\ \A i \in StartNodes :
              /\ EdgesInto(nodes[i].id) = {}
              /\ Cardinality(EdgesFrom(nodes[i].id)) = 1

\* C11: id uniqueness. In every state of the advanced editor the step ids
\* and the terminal ids of the script are pairwise distinct, steps and
\* terminals sharing one namespace.
C11_UniqueIds == scriptsView = "advanced" => DistinctIds(editing)

\* equal nodes, edges and originalScript compile to equal scripts at any
\* two clock values
SameAtAllTimes ==
    \A t1, t2 \in 1..MaxNow :
        flowToScript(nodes, edges, originalScript, t1)
            = flowToScript(nodes, edges, originalScript, t2)

HasName ==
    \/ originalScript.name # ""
    \/ \E i \in StartNodes :
          (\A j \in StartNodes : i <= j) /\ nodes[i].data.name # ""

DoneNodes == {i \in 1..Len(nodes) : IsDoneNode(nodes[i])}

\* the keys of done_actions are the ids of the terminal nodes, one entry each
DoneKeys(s) ==
    /\ ObjKeys(s.done_actions) = {nodes[i].id : i \in DoneNodes}
    /\ \A a, b \in 1..Len(s.done_actions) :
          s.done_actions[a].id = s.done_actions[b].id => a = b

\* C13 as stated: done_actions has, for every terminal node, an entry keyed
\* by the node id whose text, action and target_script_id equal the node's
\* data fields, and no other entry.
C13_Verbatim ==
    inflight # <<>> =>
        /\ DoneKeys(Sent)
        /\ \A i \in DoneNodes :
              ObjGet(Sent.done_actions, nodes[i].id)
                  = [text |-> nodes[i].data.text,
                     action |-> nodes[i].data.action,
                     target_script_id |-> nodes[i].data.target_script_id]

\* the last terminal node, in node order, with the id of node i
LastWithId(i) ==
    CHOOSE j \in DoneNodes :
        /\ nodes[j].id = nodes[i].id
        /\ \A m \in DoneNodes : nodes[m].id = nodes[i].id => m <= j

\* C13 amended: done_actions has exactly one entry per terminal node id and
\* no other entry; its text and target_script_id equal the data fields of
\* the last terminal node with that id, and its action equals that node's
\* data action, or "save_service_call" when the data action is empty.
C13_Defaulted ==
    inflight # <<>> =>
        /\ DoneKeys(Sent)
        /\ \A i \in DoneNodes :
              LET d == nodes[LastWithId(i)].data
              IN ObjGet(Sent.done_actions, nodes[i].id)
                    = [text |-> d.text,
                       action |-> IF d.action = "" THEN "save_service_call"
                                  ELSE d.action,
                       target_script_id |-> d.target_script_id]

\* a saved graph with a terminal that has no action and a terminal with a
\* custom action and a target script
C13_Witness ==
    /\ inflight # <<>>
    /\ \E i \in DoneNodes : nodes[i].data.action = ""
    /\ \E i \in DoneNodes :
          /\ nodes[i].data.action = "my_action"
          /\ nodes[i].data.target_script_id # ""
          /\ ObjGet(Sent.done_actions, nodes[i].id).action = "my_action"

\* the graph is the one openScript made of originalScript, unedited
JustOpened == Canvas(nodes, edges, originalScript) = Opened(originalScript)

\* the number of edges equal to e
Count(e) == Cardinality({k \in 1..Len(edges) : edges[k] = e})

\* the solid edges of script s: start to first_step, one per populated
\* next_step, one per populated option next_step labelled with the option
\* title, a success and a failure edge per populated check outcome
SolidEdges(s) ==
    (IF s.first_step # "" THEN {Edge(START_ID, NoHandle, s.first_step)} ELSE {})
    \cup {Edge(s.steps[i].id, NoHandle, s.steps[i].next_step) :
            i \in {j \in 1..Len(s.steps) :
                      /\ s.steps[j].type = "text_input"
                      /\ s.steps[j].next_step # ""}}
    \cup UNION {
            {LabeledEdge(s.steps[i].id, BtnHandle(b - 1),
                         s.steps[i].buttons[b].next_step,
                         s.steps[i].buttons[b].title, FALSE) :
                b \in {c \in 1..Len(s.steps[i].buttons) :
                          s.steps[i].buttons[c].next_step # ""}} :
            i \in {j \in 1..Len(s.steps) : s.steps[j].type = "buttons"}}
    \cup {LabeledEdge(s.steps[i].id, "success", s.steps[i].on_success,
                      SuccessLabel, FALSE) :
            i \in {j \in 1..Len(s.steps) :
                      /\ s.steps[j].type = "action"
                      /\ s.steps[j].on_success # ""}}
    \cup {LabeledEdge(s.steps[i].id, "failure", s.steps[i].on_failure,
                      FailureLabel, FALSE) :
            i \in {j \in 1..Len(s.steps) :
                      /\ s.steps[j].type = "action"
                      /\ s.steps[j].on_failure # ""}}

\* the steps with a step-level skip_if, and the options with one
StepSkips(s) ==
    {i \in 1..Len(s.steps) :
        s.steps[i].skip_if.present /\ s.steps[i].skip_if.goto # ""}

OptionSkips(s) ==
    {<<i, b>> \in (1..Len(s.steps)) \X (1..3) :
        /\ s.steps[i].type = "buttons"
        /\ b <= Len(s.steps[i].buttons)
        /\ s.steps[i].buttons[b].skip_if.present
        /\ s.steps[i].buttons[b].skip_if.goto # ""}

\* the dashed edges of the step-level skip_ifs
SkipEdges(s) ==
    {LabeledEdge(s.steps[i].id, NoHandle, s.steps[i].skip_if.goto,
                 SkipLabel(s.steps[i].skip_if.field), TRUE) : i \in StepSkips(s)}

DashedEdges == {k \in 1..Len(edges) : edges[k].dashed}

DanglingOption ==
    \E i \in 1..Len(nodes), k \in 1..Len(edges) :
        /\ nodes[i].type = "buttonsNode"
        /\ edges[k].source = nodes[i].id
        /\ \E b \in 1..3 :
              /\ edges[k].sourceHandle = BtnHandle(b - 1)
              /\ b > Len(Buttons(nodes[i].data))

\* what the claim calls a hard error
HardError == Cardinality(StartNodes) # 1 \/ DanglingOption

C16_OptionBounds ==
    scriptsView = "advanced" =>
        \A si \in 1..Len(editing.steps) :
            editing.steps[si].type = "buttons" =>
                /\ Len(editing.steps[si].buttons) \in 1..3
                /\ \A bi \in 1..Len(editing.steps[si].buttons) :
                      Len(editing.steps[si].buttons[bi].title) <= TitleCap

\* C17: no step of the script in the advanced editor has a skip_if whose
\* goto is the step's own id.
C17_NoSelfSkip ==
    scriptsView = "advanced" =>
        \A si \in 1..Len(editing.steps) :
            editing.steps[si].skip_if.present =>
                editing.steps[si].skip_if.goto # editing.steps[si].id

Returned == closer.settled[2]

\* the handler's promise resolved to exactly { ok: true, ivnum } with the
\* event's ivnum after activateStart and activateEnd completed, or to
\* exactly { ok: false, error } with a non-empty error text
WellFormedResult ==
    \/ /\ DOMAIN Returned = {"ok", "ivnum"}
       /\ Returned.ok
       /\ Returned.ivnum = closer.event[1].ivnum
       /\ \E i, j \in 1..Len(closer.calls) :
             /\ i < j
             /\ closer.calls[i] = "activateStart"
             /\ closer.calls[j] = "activateEnd"
    \/ /\ DOMAIN Returned = {"ok", "error"}
       /\ ~Returned.ok
       /\ Returned.error # ""

\* C19 as stated: for every event the handler's promise never rejects, and
\* what it resolves to is { ok: true, ivnum } after both procedure calls
\* completed, or { ok: false, error }.
C19_NeverRejects ==
    closer.pc = "done" =>
        /\ closer.settled[1] = "resolved"
        /\ WellFormedResult

\* C19 amended: the same for every event that is an object; a null event
\* is outside the statement.
C19_ObjectEvents ==
    (closer.pc = "done" /\ closer.event # NullEvent) =>
        /\ closer.settled[1] = "resolved"
        /\ WellFormedResult

\* the procedure timed out and the handler resolved to { ok: false, error }
C19_Witness ==
    /\ closer.pc = "done"
    /\ closer.event # NullEvent
    /\ closer.calls # <<>>
    /\ closer.calls[Len(closer.calls)] = "activateStart"
    /\ Returned.error = "activateEnd timed out after 30000ms"

\* the events one transition of the session appended to the log
Appended == SubSeq(bot'.log, Len(bot.log) + 1, Len(bot'.log))

\* the step or terminal an entry of the log is about
Location(entry) == entry.step

\* C20: skip precedence. In every pass of the engine, a step whose skip_if
\* the field map satisfies is not shown: no step_shown is logged for it,
\* skip_if_triggered is logged for it with its goto as the target, and the
\* next entry of the pass is about that target (or the pass ended there on
\* a skip cycle); and skip_if_triggered is only logged for such a step.
C20_SkipPrecedence ==
    [][\A i \in 1..Len(Appended) :
          LET entry == Appended[i]
              step == EngineStepAt(bot'.script, entry.step)
              guarded == /\ step.skip_if.present
                         /\ SkipSatisfied(step.skip_if, bot'.fields)
          IN /\ entry.event = "step_shown" => ~guarded
             /\ entry.event = "skip_if_triggered" =>
                   /\ guarded
                   /\ entry.target = step.skip_if.goto
                   /\ \A j \in 1..Len(Appended) :
                         ~(/\ Appended[j].event = "step_shown"
                           /\ Appended[j].step = entry.step)
                   /\ IF i < Len(Appended)
                      THEN Location(Appended[i + 1]) = entry.target
                      ELSE bot'.error = "SkipCycleError"
      ]_vars

\* the session of the example: device_number is empty, STEP_1 is skipped to
\* DONE_1 at the start, and the session is done without showing STEP_1
C20_Witness ==
    /\ bot.state = "done"
    /\ bot.fields.device_number = ""
    /\ bot.log = <<LogEntry("session_start", "", "", ""),
                   LogEntry("skip_if_triggered", "STEP_1", "device_number",
                            "DONE_1"),
                   [LogEntry("session_done", "DONE_1", "", "")
                       EXCEPT !.action = "save_service_call"]>>

\* entry i of the pass is a skip
Skipped(i) == Appended[i].event = "skip_if_triggered"

\* the pass ended on a skip whose target was already skipped in the pass
Revisit ==
    /\ Appended # <<>>
    /\ Skipped(Len(Appended))
    /\ \E j \in 1..Len(Appended) :
          Skipped(j) /\ Appended[j].step = Appended[Len(Appended)].target

\* C21: skip cycles do not loop. A pass skips every step at most once, so
\* it logs at most one entry per step besides the entry that opens it and
\* the one that ends it; a pass that comes back to a step it skipped is
\* aborted with SkipCycleError, shows nothing, finishes nothing, and
\* leaves the session at the step it was at; no other pass has that error.
C21_SkipCycleAborts ==
    [][/\ \A i, j \in 1..Len(Appended) :
             (Skipped(i) /\ Skipped(j) /\ Appended[i].step = Appended[j].step)
                 => i = j
       /\ Len(Appended) <= Len(bot'.script.steps) + 2
       /\ Revisit <=> bot'.error = "SkipCycleError"
       /\ bot'.error = "SkipCycleError" =>
             /\ bot'.step = bot.step
             /\ bot'.state # "done"
             /\ \A i \in 1..Len(Appended) :
                   Appended[i].event \notin {"step_shown", "session_done"}
      ]_vars

\* a session that was at STEP_1, took an input, and ran into the cycle
\* STEP_2 -> STEP_1 -> STEP_2
C21_Witness ==
    /\ bot.error = "SkipCycleError"
    /\ bot.step = "STEP_1"
    /\ Len(bot.log) >= 5
    /\ bot.log[Len(bot.log)].event = "skip_if_triggered"
    /\ bot.log[Len(bot.log)].target = "STEP_2"

\* the session_done entry of the terminal id of the session's script
SessionDone(id) ==
    [LogEntry("session_done", id, "", "")
        EXCEPT !.action = ObjGet(bot'.script.done_actions, id).action]

\* the target of the transition: the first step at the start, the
\* next_step of the current step on an inbound message
TransitionTarget ==
    IF bot.state = "idle" THEN bot'.script.first_step
    ELSE EngineStepAt(bot.script, bot.step).next_step

\* C22: terminal reached. In every transition of a session: when the
\* transition target, or the goto of a skip of the pass, is a terminal,
\* session_done with the terminal's id and action tag is the last entry
\* logged and the session is done at that terminal; a session is done only
\* with a session_done entry last in its log; and in the example script
\* the inbound text is stored under desc and the session ends done at
\* DONE_1 with action save_message.
C22_TerminalReached ==
    [][bot' # bot =>
        LET dones == ObjKeys(bot'.script.done_actions)
            last == bot'.log[Len(bot'.log)]
            ended(id) == /\ last = SessionDone(id)
                         /\ Appended # <<>>
                         /\ bot'.state = "done"
                         /\ bot'.step = id
        IN /\ TransitionTarget \in dones => ended(TransitionTarget)
           /\ \A i \in 1..Len(Appended) :
                 (Skipped(i) /\ Appended[i].target \in dones)
                     => ended(Appended[i].target)
           /\ bot'.state = "done" => \E id \in dones : ended(id)
           /\ \A i \in 1..Len(Appended) :
                 Appended[i].event = "session_done" => i = Len(Appended)
           /\ (bot.script = ExampleScript /\ bot.state = "active") =>
                 /\ \E text \in Texts :
                       bot'.fields = [bot.fields EXCEPT !.desc = text]
                 /\ ended("DONE_1")
                 /\ last.action = "save_message"
      ]_vars

\* the example session after its one inbound text
C22_Witness ==
    /\ bot.script = ExampleScript
    /\ bot.state = "done"
    /\ bot.fields.desc = "hi"
    /\ bot.log = <<LogEntry("session_start", "", "", ""),
                   LogEntry("step_shown", "STEP_1", "", ""),
                   LogEntry("user_input", "STEP_1", "desc", ""),
                   [LogEntry("session_done", "DONE_1", "", "")
                       EXCEPT !.action = "save_message"]>>

\* C23: the skip edge does not capture next_step. Whenever the canvas is
\* exactly what scriptToFlow made of the script, every text_input step
\* with a next_step and a skip_if whose goto differs from it is sent with
\* that next_step.
C23_SkipKeepsNext ==
    (inflight # <<>> /\ JustOpened) =>
        \A i \in 1..Len(originalScript.steps) :
            LET step == originalScript.steps[i]
            IN (/\ step.type = "text_input"
                /\ step.next_step # ""
                /\ step.skip_if.present
                /\ step.skip_if.goto # ""
                /\ step.skip_if.goto # step.next_step)
               => StepById(Sent, step.id).next_step = step.next_step

\* the options of node i in the script compiled from the given graph
CompiledButtons(nds, eds, i) ==
    StepById(flowToScript(nds, eds, originalScript, now), nds[i].id).buttons

\* C24: removing an option keeps the other options' targets. When option
\* bi of a choice node whose options each have an outgoing edge is removed
\* in the side panel, every remaining option compiles to the next_step it
\* compiled to before the removal.
C24_RemoveKeepsTargets ==
    [][\A i \in 1..Len(nodes), bi \in 0..2 :
          (/\ removeButton(i, bi)
           /\ \A k \in 0..(Len(Buttons(nodes[i].data)) - 1) :
                 EdgesOn(nodes[i].id, BtnHandle(k)) # {})
          => \A k \in 1..Len(CompiledButtons(nodes', edges', i)) :
                CompiledButtons(nodes', edges', i)[k].next_step
                  = CompiledButtons(nodes, edges, i)
                       [IF k <= bi THEN k ELSE k + 1].next_step
      ]_vars

\* C25: a diagnostics refresh does not change the selection. When the
\* response of a fetchSessions call arrives while a session is selected,
\* the session selected afterwards is one of the same phone.
C25_RefreshKeepsSelection ==
    [][(/\ diag.selected # <<>>
        /\ \E f \in diag.fetches, ok \in BOOLEAN : fetchSessionsDone(f, ok))
       => /\ diag'.selected # <<>>
          /\ diag'.selected[1].phone = diag.selected[1].phone
      ]_vars

\* C28: create-once in the simple editor. A save that is issued as a POST
\* is the first POST of its id, and its id is not one whose create has
\* succeeded.
C28_CreateOnce ==
    [][simpleSaves'.issued # simpleSaves.issued =>
          LET save == simpleSaves'.issued[Len(simpleSaves'.issued)]
          IN save.method = "POST" =>
                /\ \A i \in 1..Len(simpleSaves.issued) :
                      ~(/\ simpleSaves.issued[i].method = "POST"
                        /\ simpleSaves.issued[i].id = save.id)
                /\ save.id \notin simpleSaves.created
      ]_vars

\* the ids the step or terminal id of script s leads to
Successors(s, id) ==
    IF id \notin StepIds(s) THEN {}
    ELSE LET step == StepById(s, id)
         IN IF step.type = "buttons"
            THEN {step.buttons[k].next_step : k \in 1..Len(step.buttons)}
            ELSE {step.next_step}

\* the ids reached from the set ids in at most n transitions
RECURSIVE ReachedIn(_, _, _)
ReachedIn(s, ids, n) ==
    IF n = 0 THEN ids
    ELSE ReachedIn(s, ids \cup UNION {Successors(s, id) : id \in ids}, n - 1)

\* C26: simpleToScript yields a well-formed linear script. For the form of
\* the simple editor, the step ids of the script are pairwise distinct,
\* first_step and every next_step name a step or DONE_1, and every step
\* and DONE_1 are reached from first_step.
C26_LinearScript ==
    scriptsView = "simple" =>
        LET s == simpleToScript(simple, editingId)
            ids == StepIds(s) \cup {"DONE_1"}
        IN /\ \A i, j \in 1..Len(s.steps) :
                 i # j => s.steps[i].id # s.steps[j].id
           /\ s.first_step \in ids
           /\ \A id \in StepIds(s) : Successors(s, id) \subseteq ids
           /\ ids \subseteq ReachedIn(s, {s.first_step}, Len(s.steps))

\* the stored active flag of script id is false
StoredInactive(id) == \E s \in stored : s.script_id = id /\ ~s.active

\* C27: saving preserves the active flag. No editor has a control for
\* active, so every save of a stored script whose active flag is false,
\* from the flow editor, the simple editor or the advanced editor, sends
\* a script with active = false.
C27_ActivePreserved ==
    /\ inflight # <<>> /\ StoredInactive(inflight[1].script_id)
          => ~inflight[1].active
    /\ \A k \in 1..Len(simpleSaves.issued) :
          StoredInactive(simpleSaves.issued[k].id) => ~simpleSaves.sent[k]

\* C29: a failed save leaves the flow editor unchanged. When handleSave
\* ends with an error response or a thrown exception, originalScript, nodes
\* and edges stay what they were, the error message is shown and saving is
\* false again; originalScript is replaced (onSave) only with the success
\* message of a response with ok true.
C29_FailedSaveKeepsEditor ==
    [][(saving /\ ~saving') =>
          /\ saveMsg' \in {"saved", "error"}
          /\ saveMsg' = "error" =>
                /\ originalScript' = originalScript
                /\ nodes' = nodes
                /\ edges' = edges
          /\ originalScript' # originalScript => saveMsg' = "saved"]_vars

\* a save of a changed graph has failed
C29_Witness ==
    /\ view = "editor"
    /\ saveMsg = "error"
    /\ ~saving
    /\ inflight = <<>>
    /\ flowToScript(nodes, edges, originalScript, now) # originalScript

\* formStart has succeeded in this invocation
FormOpened == \E k \in 1..Len(closer.calls) : closer.calls[k] = "formStart"

\* C30: the ERP form is always released. Once formStart has succeeded,
\* form.endCurrentForm() has been called when finalizeInvoice has returned
\* or thrown, on every path.
C30_FormReleased ==
    (closer.pc = "done" /\ FormOpened) => closer.ended

====
